---- MODULE Spec2Model ----
(***************************************************************************)
(* ARQGAN: conditional image-to-image GANs (pix2pix style).                *)
(*                                                                         *)
(* The module models eight parts of the repository, each with its own      *)
(* specification over the same variables:                                  *)
(*   SpecTrain  the fit loops and training / validation steps of Pix2Pix,  *)
(*              HybridReconstuctor, RaisingLamdba and Model0               *)
(*   SpecLoss   the discriminator loss functions                           *)
(*   SpecData   HybridReconstuctor.get_dataset and its re-iteration        *)
(*   SpecNet    the generator / discriminator layer graphs                 *)
(*   SpecFiles  HybridReconstuctor.get_single_dataset                      *)
(*   SpecSplit  Model0.gen_dataset                                         *)
(*   SpecConfig the module-level image dimensions                          *)
(*   SpecJitter random_jitter of the two preprocessing modules             *)
(* Variables of a part that a specification does not use keep the value    *)
(* the part's Idle predicate gives them.                                   *)
(***************************************************************************)
EXTENDS Integers, Sequences, FiniteSets, TLC

(***************************************************************************)
(* Bounds of the model.                                                    *)
(***************************************************************************)
\* get_single_dataset is explored for listings of 0..MaxRuinPaths ruin images
MaxRuinPaths == 4
\* ... and of 0..MaxTemplePaths temple images and as many colour images
MaxTemplePaths == 3
\* at most MaxModels Model0 instances are constructed
MaxModels == 2
\* at most MaxCalls calls of gen_dataset, and as many of get_dataset, are made
MaxCalls == 2
\* gen_dataset is explored for 0..MaxPaths real paths
MaxPaths == 205
\* ... and repeat_real in 1..MaxRepeat
MaxRepeat == 2
\* fit(epochs=E) is explored for E in 1..MaxEpochs
MaxEpochs == 5
\* number of batches the training dataset yields per iteration
NumTrain == 2
\* number of batches the validation dataset yields per iteration
NumVal == 2

(***************************************************************************)
(* State of a training run.                                                *)
(***************************************************************************)
VARIABLES
    variant,      \* the class whose fit runs: "Pix2Pix", "Hybrid", "Rising", "Model0"
    hasVal,       \* test_ds is not None (HybridReconstuctor / RaisingLamdba fit)
    epochs,       \* the epochs argument of fit (self.epochs in Model0)
    epoch,        \* loop variable of `for epoch in range(epochs)`
    batch,        \* number of batches the running dataset loop has consumed
    pc,           \* next statement of fit / of the running step
    training,     \* the running step is a training step (training=True)
    stepNo,       \* number of steps (training or validation) begun so far
    params,       \* [net -> number of updates of its trainable variables]
    optIter,      \* [optimizer -> number of apply_gradients calls (Adam state)]
    bnStats,      \* [net -> number of training-mode calls (moving statistics)]
    applied,      \* [<<optimizer, net>> -> apply_gradients calls in this step]
    tape,         \* forward pass recorded by the GradientTape: <<step, gen, disc>>
    gGrad,        \* gradient of the generator loss: <<step, gen, disc>> or <<>>
    dGrad,        \* gradient of the discriminator loss: <<step, gen, disc>> or <<>>
    computed,     \* tensors computed by the running step
    e_t,          \* RaisingLamdba.e_t
    e_f,          \* RaisingLamdba.e_f (0 stands for None)
    lambda_t,     \* weight computed by a Python run of generator_loss in this step
    traced,       \* weight frozen in the traced graph of train_step, <<>> before tracing
    stepWeight,   \* L1 weight applied to the generator loss of the running step
    save_path,    \* Model0(save_path=...) is not None
    log_dir,      \* the log_dir of the run is not None
    lamda_f,      \* the lamda_f argument of RaisingLamdba(...), 0 for the other classes
    steps,        \* [kind -> [epoch -> number of steps of that kind begun in the epoch]]
    env,          \* the locals of the running step: [name -> the term it is bound to]
    metrics,      \* Model0's training metrics: [metric -> the values aggregated]
    stats,        \* Model0.stats: one row per append
    images,       \* the n of every image_epoch{n}.png that generate_images has saved
    csv,          \* the contents of stats_model0.csv, one per to_csv call
    events,       \* the epoch-end calls fit has made: <<epoch, call>>
    raised        \* an exception is propagating out of fit

(***************************************************************************)
(* State of one evaluation of a discriminator loss.                        *)
(***************************************************************************)
VARIABLES
    lossOf,                 \* the class whose discriminator loss is evaluated
    disc_real_output,       \* logit the discriminator gives the real pair
    disc_generated_output,  \* logit the discriminator gives the generated pair
    total_disc_loss         \* <<value returned>>, <<>> before the call

lossVars == <<lossOf, disc_real_output, disc_generated_output, total_disc_loss>>

(***************************************************************************)
(* State of the datasets HybridReconstuctor.get_dataset returns.           *)
(***************************************************************************)
VARIABLES
    dsPc,          \* "args", then which dataset is iterated next, then "done"
    n_temples,     \* len(temples)
    ruins_per_temple,
    split,         \* the split argument, in percent
    n_files,       \* number of tuples the concatenated per-temple datasets hold
    buffer_size,
    train_size,
    dsEpoch,       \* number of epochs that have iterated both datasets
    trainYields,   \* the sets of elements train has yielded, one per iteration
    valYields      \* the sets of elements validation has yielded, one per iteration

dataVars == <<dsPc, n_temples, ruins_per_temple, split, n_files, buffer_size,
              train_size, dsEpoch, trainYields, valYields>>

(***************************************************************************)
(* State of one call of a generator or discriminator on concrete inputs.   *)
(* A tensor is [h, w, c, deps]: height, width, channels and the set of     *)
(* network inputs it is computed from.                                     *)
(***************************************************************************)
VARIABLES
    netOf,        \* the network: "P2P_generator", "Model0_generator", ...
    heads,        \* generator(heads=...)
    out_dims,     \* generator(out_dims=...)
    in_h,         \* height of the input images
    in_w,         \* width of the input images
    netPc,        \* next statement of the network function
    x,            \* the tensor the code calls x
    out,          \* the latest tensor of the chain that ends in the model's output
    skips,        \* encoder outputs kept for the skip connections, with their block
    concats,      \* the skip concatenations made so far
    dlayer,       \* loop variable `layer` of the Pix2Pix discriminator
    multiplier    \* `multiplier` of the Pix2Pix discriminator

graphVars == <<netOf, heads, out_dims, in_h, in_w, netPc, x, out, skips, concats,
               dlayer, multiplier>>

(***************************************************************************)
(* State of one call of HybridReconstuctor.get_single_dataset.  A path is  *)
(* named by its rank in the listing.                                       *)
(***************************************************************************)
VARIABLES
    gsPc,              \* next statement of get_single_dataset, "returned" or "raised"
    ruins_path_list,
    colors_path_list,
    temple_path_list,
    repetition,
    dataset            \* the elements of the dataset returned: <<ruin, temple, colour>>

fileVars == <<gsPc, ruins_path_list, colors_path_list, temple_path_list, repetition, dataset>>

(***************************************************************************)
(* The module-level image dimensions (a dimension pair is <<width,         *)
(* height>>) and the objects built from them.                              *)
(***************************************************************************)
VARIABLES
    pp_IMG,          \* pix2pix_preprocessing.IMG_WIDTH, IMG_HEIGHT
    cp_IMG,          \* custom_preprocessing.IMG_WIDTH, IMG_HEIGHT
    cp_TGT,          \* custom_preprocessing.TGT_WIDTH, TGT_HEIGHT
    models,          \* the Model0 instances constructed so far: their img_width, img_height
    m0_datasets,     \* the dataset pairs Model0.gen_dataset has returned
    jitter_trace,    \* dimensions frozen in the trace of the tf.function random_jitter
    input_shapes,    \* the input_shape argument of every get_dataset call so far
    cp_datasets      \* the datasets HybridReconstuctor.get_dataset has returned

configVars == <<pp_IMG, cp_IMG, cp_TGT, models, m0_datasets, jitter_trace, input_shapes,
                cp_datasets>>

(***************************************************************************)
(* State of one call of Model0.gen_dataset.  A path is the rank of its     *)
(* name in lexicographic order.                                            *)
(***************************************************************************)
VARIABLES
    gdPc,          \* next statement of gen_dataset, "returned" or "raised"
    input_path,
    real_path,
    repeat_real,
    train_input,
    train_real,
    test_input,
    test_real,
    train_dataset, \* the pairs of paths the training dataset loads, before the shuffle
    test_dataset   \* the pairs of paths the test dataset loads

splitVars == <<gdPc, input_path, real_path, repeat_real, train_input, train_real,
               test_input, test_real, train_dataset, test_dataset>>

(***************************************************************************)
(* State of one call of random_jitter.  An image is described by where its *)
(* pixels come from: the window of the resized source image it shows, and  *)
(* whether it shows it mirrored.                                           *)
(***************************************************************************)
VARIABLES
    jtPc,          \* next statement of random_jitter, "returned" or "raised"
    preprocessing, \* the module of the call: "pix2pix_preprocessing" or "custom_preprocessing"
    IMG_WIDTH,     \* the attributes of that module, as random_jitter reads them
    IMG_HEIGHT,
    TGT_WIDTH,     \* custom_preprocessing only (0 in pix2pix_preprocessing)
    TGT_HEIGHT,
    jitter_images  \* the tuple of images random_jitter works on

jitterVars == <<jtPc, preprocessing, IMG_WIDTH, IMG_HEIGHT, TGT_WIDTH, TGT_HEIGHT,
                jitter_images>>

trainVars == <<variant, hasVal, epochs, epoch, batch, pc, training, stepNo, params,
               optIter, bnStats, applied, tape, gGrad, dGrad, computed, e_t, e_f,
               lambda_t, traced, stepWeight, save_path, log_dir, lamda_f, steps, env,
               metrics, stats, images, csv, events, raised>>

\* Everything that is not part of a training run.
notTrain ==
    <<lossVars, dataVars, graphVars, fileVars, configVars, splitVars, jitterVars>>

\* Everything that is not part of a loss evaluation.
notLoss ==
    <<trainVars, dataVars, graphVars, fileVars, configVars, splitVars, jitterVars>>

\* Everything that is not part of the datasets.
notData ==
    <<trainVars, lossVars, graphVars, fileVars, configVars, splitVars, jitterVars>>

\* Everything that is not part of a network call.
notGraph ==
    <<trainVars, lossVars, dataVars, fileVars, configVars, splitVars, jitterVars>>

\* Everything that is not part of a get_single_dataset call.
notFiles ==
    <<trainVars, lossVars, dataVars, graphVars, configVars, splitVars, jitterVars>>

\* Everything that is not part of the module-level configuration.
notConfig ==
    <<trainVars, lossVars, dataVars, graphVars, fileVars, splitVars, jitterVars>>

\* Everything that is not part of a gen_dataset call.
\* Everything that is not part of a random_jitter call.
notJitter ==
    <<trainVars, lossVars, dataVars, graphVars, fileVars, configVars, splitVars>>

notSplit ==
    <<trainVars, lossVars, dataVars, graphVars, fileVars, configVars, jitterVars>>

vars ==
    <<trainVars, lossVars, dataVars, graphVars, fileVars, configVars, splitVars, jitterVars>>

Variants == {"Pix2Pix", "Hybrid", "Rising", "Model0"}
Nets == {"generator", "discriminator"}
Opts == {"optimizer_g", "optimizer_d"}

\* Absent value of a tape, a gradient or a weight.
None == <<>>

Zero(S) == [k \in S |-> 0]

Bump(f, k) == [f EXCEPT ![k] = @ + 1]

(***************************************************************************)
(* RaisingLamdba: the scheduled L1 weight.                                 *)
(***************************************************************************)
lambda_i == 100
lambda_f == 200

\* Values of the keyword argument lamda_f of RaisingLamdba.__init__: its
\* default, and the one the script passes.
lamda_f_arguments == {200, 300}

\* Variation of RisingLambda: the slope is not multiplied by the current epoch.
RisingLambda_no_epoch(et, ef) == <<lambda_i * ef + (lambda_f - lambda_i), ef>>

\* lambda_t = lambda_i + (lambda_f - lambda_i) / e_f * e_t, kept as the exact
\* fraction num / den with den = e_f.
RisingLambda(et, ef) == <<lambda_i * ef + (lambda_f - lambda_i) * et, ef>>

Num(w) == w[1]
Den(w) == w[2]

\* Tensors of one pass: generator output, the two discriminator scores, both losses.
StepTensors == {"gen_output", "disc_real", "disc_generated", "gen_loss", "disc_loss"}

\* Model0 adds the second pass (there is no second real score).
SecondPassTensors == {"gen_output_second_pass", "disc_generated_output_second_pass",
                      "gen_loss_second_pass", "disc_loss_second_pass"}

(***************************************************************************)
(* GradientTape and optimizer primitives.                                  *)
(***************************************************************************)
\* The two kinds of step a fit loop runs.
StepKinds == {"train", "validation"}

StepKind(tr) == IF tr THEN "train" ELSE "validation"

\* with tf.GradientTape() as tape: the forward pass of a step.  Calling a
\* network with training=True also updates its moving statistics.
ForwardPass(tr, tensors) ==
    /\ stepNo' = stepNo + 1
    /\ steps' = [steps EXCEPT ![StepKind(tr)][epoch] = @ + 1]
    /\ training' = tr
    /\ tape' = <<stepNo + 1, params["generator"], params["discriminator"]>>
    /\ bnStats' = IF tr THEN [n \in Nets |-> bnStats[n] + 1] ELSE bnStats
    /\ computed' = tensors
    /\ applied' = Zero(Opts \X Nets)
    /\ gGrad' = None
    /\ dGrad' = None

\* tape.gradient(loss, model.trainable_variables): differentiates the recorded
\* forward pass; the record keeps the parameter versions current at the call.
TapeGradient == <<tape[1], params["generator"], params["discriminator"]>>

\* optimizer.apply_gradients(zip(gradients, model.trainable_variables))
ApplyGradients(opt, grad, net) ==
    /\ grad # None
    /\ params' = Bump(params, net)
    /\ optIter' = Bump(optIter, opt)
    /\ applied' = Bump(applied, <<opt, net>>)

\* No step of either kind has run in any epoch.
NoSteps == [k \in StepKinds |-> [e \in 0..(MaxEpochs - 1) |-> 0]]

\* Model0.__init__: the four training metrics
TrainMetrics == {"train_loss_disc", "train_loss_gen", "train_acc_real", "train_acc_generated"}

\* metric.reset_states() of the four of them: nothing aggregated
reset_states == [m \in TrainMetrics |-> {}]

\* The locals of a step go out of scope when it returns.
StepReturns ==
    /\ tape' = None
    /\ gGrad' = None
    /\ dGrad' = None
    /\ computed' = {}
    /\ env' = None
    /\ lambda_t' = None
    /\ stepWeight' = None

\* Arguments of fit and of the constructor: fixed for the whole run.
runVars == <<variant, hasVal, epochs, save_path, log_dir, lamda_f>>

\* RaisingLamdba's schedule attributes and the trace of its train_step.
schedVars == <<e_t, e_f, traced>>

\* The networks and their optimizers.
netState == <<params, optIter, bnStats>>

\* The locals of the running step.
stepLocals == <<tape, gGrad, dGrad, computed, env, lambda_t, stepWeight>>

\* What a run records: Model0's metrics, statistics and files, the epoch-end
\* calls, and the exception that ended it.
runLog == <<metrics, stats, images, csv, events, raised>>

(***************************************************************************)
(* The values a step computes, as terms: which call of which network or    *)
(* loss, on which arguments.  Every term is a tuple headed by its operator. *)
(***************************************************************************)
\* An argument of the step.
Arg(name) == <<"arg", name>>

\* The k-th network call of the step: net(args, training=...)
Call(net, k, args) == <<net, k, args>>

\* loss_object + weight * l1: the generator loss of the three classes
GenLoss(generated, gen_output, target, weight) ==
    <<"generator_loss", generated, gen_output, target, weight>>

\* the discriminator loss of a real score and a generated score
DiscLoss(real, generated) == <<"discriminator_loss", real, generated>>

\* tape.gradient(loss, model.trainable_variables)
Gradient(loss, net) == <<"gradient", loss, net>>

\* a + b
Sum(a, b) == <<"add", a, b>>

\* a + weight * b
WeightedSum(a, weight, b) == Sum(a, <<"mul", weight, b>>)

\* Binding one more local.
Bind(e, name, value) == [k \in DOMAIN e \cup {name} |-> IF k = name THEN value ELSE e[k]]

\* Pix2Pix._step: the body of `with tf.GradientTape(persistent=True) as tape:`
P2P_step_tape(weight) ==
    LET g_x == Call("generator", 1, <<Arg("train_x")>>)
        d_g_x == Call("discriminator", 2, <<Arg("train_x"), g_x>>)
        d_y == Call("discriminator", 3, <<Arg("train_x"), Arg("train_y")>>)
    IN  [g_x |-> g_x, d_g_x |-> d_g_x, d_y |-> d_y,
         g_loss |-> GenLoss(d_g_x, g_x, Arg("train_y"), weight),
         d_loss |-> DiscLoss(d_y, d_g_x)]

\* HybridReconstuctor.train_step: the body of the tape (validate computes the
\* same from test_ruin, test_temple, test_color)
Hybrid_train_step_tape(weight) ==
    LET gen_output == Call("generator", 1, <<Arg("ruin"), Arg("color")>>)
        disc_real == Call("discriminator", 2, <<Arg("ruin"), Arg("temple")>>)
        disc_generated == Call("discriminator", 3, <<Arg("ruin"), gen_output>>)
    IN  [gen_output |-> gen_output, disc_real |-> disc_real,
         disc_generated |-> disc_generated,
         gen_loss |-> GenLoss(disc_generated, gen_output, Arg("temple"), weight),
         disc_loss |-> DiscLoss(disc_real, disc_generated)]

\* self.LAMBDA = 100
Model0_LAMBDA == <<100, 1>>

\* self.SECOND_PASS_LAMBDA = 1.25
SECOND_PASS_LAMBDA == <<5, 4>>

\* Variation of Model0_train_step_tape: the second pass is fed the input image
\* again, not the output of the first pass.
Model0_train_step_tape_from_input ==
    LET first == Call("generator", 1, <<Arg("input_image")>>)
        real == Call("discriminator", 2, <<Arg("input_image"), Arg("target")>>)
        gen1 == Call("discriminator", 3, <<Arg("input_image"), first>>)
        second == Call("generator", 4, <<Arg("input_image")>>)
        gen2 == Call("discriminator", 5, <<Arg("input_image"), second>>)
        gl1 == GenLoss(gen1, first, Arg("target"), Model0_LAMBDA)
        dl1 == DiscLoss(real, gen1)
        gl2 == GenLoss(gen2, second, Arg("target"), Model0_LAMBDA)
        dl2 == DiscLoss(real, gen2)
    IN  [gen_output_first_pass |-> first,
         disc_real_output_first_pass |-> real,
         disc_generated_output_first_pass |-> gen1,
         gen_loss_first_pass |-> gl1,
         disc_loss_first_pass |-> dl1,
         gen_output_second_pass |-> second,
         disc_generated_output_second_pass |-> gen2,
         gen_loss_second_pass |-> gl2,
         disc_loss_second_pass |-> dl2,
         gen_loss |-> WeightedSum(gl1, SECOND_PASS_LAMBDA, gl2),
         disc_loss |-> Sum(dl1, dl2)]

\* Variation of Model0_train_step_tape: the second pass scores the real pair
\* again for its discriminator loss.
Model0_train_step_tape_rescored ==
    LET first == Call("generator", 1, <<Arg("input_image")>>)
        real == Call("discriminator", 2, <<Arg("input_image"), Arg("target")>>)
        gen1 == Call("discriminator", 3, <<Arg("input_image"), first>>)
        second == Call("generator", 4, <<first>>)
        real2 == Call("discriminator", 5, <<Arg("input_image"), Arg("target")>>)
        gen2 == Call("discriminator", 6, <<Arg("input_image"), second>>)
        gl1 == GenLoss(gen1, first, Arg("target"), Model0_LAMBDA)
        dl1 == DiscLoss(real, gen1)
        gl2 == GenLoss(gen2, second, Arg("target"), Model0_LAMBDA)
        dl2 == DiscLoss(real2, gen2)
    IN  [gen_output_first_pass |-> first,
         disc_real_output_first_pass |-> real,
         disc_generated_output_first_pass |-> gen1,
         gen_loss_first_pass |-> gl1,
         disc_loss_first_pass |-> dl1,
         gen_output_second_pass |-> second,
         disc_real_output_second_pass |-> real2,
         disc_generated_output_second_pass |-> gen2,
         gen_loss_second_pass |-> gl2,
         disc_loss_second_pass |-> dl2,
         gen_loss |-> WeightedSum(gl1, SECOND_PASS_LAMBDA, gl2),
         disc_loss |-> Sum(dl1, dl2)]

\* Model0.train_step: the body of the two tapes, first and second pass
Model0_train_step_tape ==
    LET first == Call("generator", 1, <<Arg("input_image")>>)
        real == Call("discriminator", 2, <<Arg("input_image"), Arg("target")>>)
        gen1 == Call("discriminator", 3, <<Arg("input_image"), first>>)
        second == Call("generator", 4, <<first>>)
        gen2 == Call("discriminator", 5, <<Arg("input_image"), second>>)
        gl1 == GenLoss(gen1, first, Arg("target"), Model0_LAMBDA)
        dl1 == DiscLoss(real, gen1)
        gl2 == GenLoss(gen2, second, Arg("target"), Model0_LAMBDA)
        dl2 == DiscLoss(real, gen2)
    IN  [gen_output_first_pass |-> first,
         disc_real_output_first_pass |-> real,
         disc_generated_output_first_pass |-> gen1,
         gen_loss_first_pass |-> gl1,
         disc_loss_first_pass |-> dl1,
         gen_output_second_pass |-> second,
         disc_generated_output_second_pass |-> gen2,
         gen_loss_second_pass |-> gl2,
         disc_loss_second_pass |-> dl2,
         gen_loss |-> WeightedSum(gl1, SECOND_PASS_LAMBDA, gl2),
         disc_loss |-> Sum(dl1, dl2)]

(***************************************************************************)
(* Pix2Pix (deprecated/models/pix2pix_updated.py).                         *)
(***************************************************************************)
\* Variation of P2P_step_forward: the gradient updates are not guarded by
\* `if training:`.
P2P_step_forward_unguarded(tr) ==
    /\ ForwardPass(tr, StepTensors)
    /\ env' = P2P_step_tape(<<100, 1>>)
    /\ lambda_t' = None
    /\ stepWeight' = <<100, 1>>
    /\ pc' = "p2p_update_g"

\* _step, the taped forward pass and `if training:`; multiplier=100 is a literal.
P2P_step_forward(tr) ==
    /\ ForwardPass(tr, StepTensors)
    /\ env' = P2P_step_tape(<<100, 1>>)
    /\ lambda_t' = None
    /\ stepWeight' = <<100, 1>>
    /\ pc' = IF tr THEN "p2p_update_g" ELSE "p2p_summary"

\* Pix2Pix.fit up to the epoch loop (the summary writers)
P2P_fit ==
    /\ variant = "Pix2Pix" /\ pc = "fit"
    /\ pc' = "epoch"
    /\ UNCHANGED <<notTrain, runLog, runVars, schedVars, netState, stepLocals, epoch, batch,
                   training, stepNo, steps, applied>>

\* for epoch in range(epochs):
P2P_fit_epoch ==
    /\ variant = "Pix2Pix" /\ pc = "epoch"
    /\ pc' = IF epoch < epochs THEN "train" ELSE "done"
    /\ batch' = 0
    /\ UNCHANGED <<notTrain, runLog, runVars, schedVars, netState, stepLocals, epoch,
                   training, stepNo, steps, applied>>

\* for train_x, train_y in train: self._step(..., training=True, ...)
P2P_fit_train_step ==
    /\ variant = "Pix2Pix" /\ pc = "train" /\ batch < NumTrain
    /\ P2P_step_forward(TRUE)
    /\ batch' = batch + 1
    /\ UNCHANGED <<notTrain, runLog, runVars, schedVars, epoch, params, optIter>>

\* _step raises in its forward pass: nothing in fit catches it
P2P_fit_train_step_raises ==
    /\ variant = "Pix2Pix" /\ pc = "train" /\ batch < NumTrain
    /\ stepNo' = stepNo + 1
    /\ steps' = [steps EXCEPT !["train"][epoch] = @ + 1]
    /\ batch' = batch + 1
    /\ raised' = TRUE
    /\ pc' = "raised"
    /\ UNCHANGED <<notTrain, runVars, schedVars, netState, stepLocals, epoch, training,
                   applied, metrics, stats, images, csv, events>>

\* _gradient_update: tape.gradient then optimizer.apply_gradients
P2P_gradient_update(loss, net, opt) ==
    /\ loss \in computed
    /\ ApplyGradients(opt, TapeGradient, net)
    /\ IF loss = "gen_loss"
         THEN gGrad' = TapeGradient /\ dGrad' = dGrad
         ELSE dGrad' = TapeGradient /\ gGrad' = gGrad

\* self._gradient_update(tape, g_loss, self.generator, self.optimizer_g)
P2P_step_update_g ==
    /\ variant = "Pix2Pix" /\ pc = "p2p_update_g"
    /\ P2P_gradient_update("gen_loss", "generator", "optimizer_g")
    /\ pc' = "p2p_update_d"
    /\ UNCHANGED <<notTrain, runLog, runVars, schedVars, epoch, batch, training, stepNo,
                   steps, bnStats, tape, computed, env, lambda_t, stepWeight>>

\* self._gradient_update(tape, d_loss, self.discriminator, self.optimizer_d)
P2P_step_update_d ==
    /\ variant = "Pix2Pix" /\ pc = "p2p_update_d"
    /\ P2P_gradient_update("disc_loss", "discriminator", "optimizer_d")
    /\ pc' = "p2p_summary"
    /\ UNCHANGED <<notTrain, runLog, runVars, schedVars, epoch, batch, training, stepNo,
                   steps, bnStats, tape, computed, env, lambda_t, stepWeight>>

\* the summary scalars, then _step returns to the loop that called it
P2P_step_summary ==
    /\ variant = "Pix2Pix" /\ pc = "p2p_summary"
    /\ StepReturns
    /\ pc' = IF training THEN "train" ELSE "validation"
    /\ UNCHANGED <<notTrain, runLog, runVars, schedVars, netState, epoch, batch, training,
                   stepNo, steps, applied>>

\* _log_images(dataset, writer, epoch): if writer is not None, an image of the
\* generator's output for the first element of the dataset is written
_log_images(ds) ==
    IF log_dir THEN events \cup {<<epoch, "_log_images", ds>>} ELSE events

\* Variation of P2P_fit_log_images_train: the validation images are logged here
\* too, before the validation steps.
P2P_fit_log_images_train_and_validation ==
    /\ variant = "Pix2Pix" /\ pc = "train" /\ batch = NumTrain
    /\ pc' = "validation"
    /\ batch' = 0
    /\ events' = _log_images("train") \cup {<<epoch, "_log_images", "validation">>}
    /\ UNCHANGED <<notTrain, metrics, stats, images, csv, raised, runVars, schedVars,
                   netState, stepLocals, epoch, training, stepNo, steps, applied>>

\* self._log_images(train, writer_train, epoch), after the training loop
P2P_fit_log_images_train ==
    /\ variant = "Pix2Pix" /\ pc = "train" /\ batch = NumTrain
    /\ pc' = "validation"
    /\ batch' = 0
    /\ events' = _log_images("train")
    /\ UNCHANGED <<notTrain, metrics, stats, images, csv, raised, runVars, schedVars,
                   netState, stepLocals, epoch, training, stepNo, steps, applied>>

\* for val_x, val_y in validation: self._step(..., training=False, ...)
P2P_fit_validation_step ==
    /\ variant = "Pix2Pix" /\ pc = "validation" /\ batch < NumVal
    /\ P2P_step_forward(FALSE)
    /\ batch' = batch + 1
    /\ UNCHANGED <<notTrain, runLog, runVars, schedVars, epoch, params, optIter>>

\* self._log_images(validation, writer_val, epoch), then the next epoch
P2P_fit_log_images_validation ==
    /\ variant = "Pix2Pix" /\ pc = "validation" /\ batch = NumVal
    /\ epoch' = epoch + 1
    /\ batch' = 0
    /\ pc' = "epoch"
    /\ events' = _log_images("validation")
    /\ UNCHANGED <<notTrain, metrics, stats, images, csv, raised, runVars, schedVars,
                   netState, stepLocals, training, stepNo, steps, applied>>

P2P_Next ==
    \/ P2P_fit
    \/ P2P_fit_epoch
    \/ P2P_fit_train_step
    \/ P2P_fit_train_step_raises
    \/ P2P_step_update_g
    \/ P2P_step_update_d
    \/ P2P_step_summary
    \/ P2P_fit_log_images_train
    \/ P2P_fit_validation_step
    \/ P2P_fit_log_images_validation

(***************************************************************************)
(* HybridReconstuctor and RaisingLamdba (models/hybrid_reconstuctor.py,    *)
(* models/hybrid_risinglambda.py).  RaisingLamdba inherits train_step and  *)
(* validate and overrides generator_loss, discriminator_loss and fit.      *)
(***************************************************************************)
IsHybrid == variant \in {"Hybrid", "Rising"}

\* RaisingLamdba.generator_loss run by the Python interpreter: reads the
\* attributes e_t and e_f as they are at that moment.
Rising_generator_loss == RisingLambda(e_t, e_f)

\* HybridReconstuctor.fit / RaisingLamdba.fit up to the epoch loop
\* (RaisingLamdba: self.e_f = epochs)
Hybrid_fit ==
    /\ IsHybrid /\ pc = "fit"
    /\ e_f' = IF variant = "Rising" THEN epochs ELSE e_f
    /\ pc' = "epoch"
    /\ UNCHANGED <<notTrain, runLog, runVars, netState, stepLocals, epoch, batch, training,
                   stepNo, steps, applied, e_t, traced>>

\* for epoch in range(epochs): (RaisingLamdba: self.e_t = epoch + 1)
Hybrid_fit_epoch ==
    /\ IsHybrid /\ pc = "epoch"
    /\ IF epoch < epochs
         THEN /\ pc' = "train"
              /\ e_t' = IF variant = "Rising" THEN epoch + 1 ELSE e_t
         ELSE /\ pc' = "done"
              /\ e_t' = e_t
    /\ batch' = 0
    /\ UNCHANGED <<notTrain, runLog, runVars, netState, stepLocals, epoch, training, stepNo,
                   steps, applied, e_f, traced>>

\* @tf.function train_step, the taped forward pass.  The first call traces the
\* Python body and freezes what it computes from Python attributes into the
\* graph; every batch has the same signature, so later calls run that graph.
Hybrid_train_step_forward ==
    /\ IsHybrid /\ pc = "train" /\ batch < NumTrain
    /\ ForwardPass(TRUE, StepTensors)
    /\ batch' = batch + 1
    /\ IF variant = "Rising"
         THEN IF traced = None
                THEN /\ lambda_t' = Rising_generator_loss
                     /\ traced' = Rising_generator_loss
                     /\ stepWeight' = Rising_generator_loss
                ELSE /\ lambda_t' = None
                     /\ traced' = traced
                     /\ stepWeight' = traced
         ELSE /\ lambda_t' = None
              /\ traced' = traced
              /\ stepWeight' = None
    /\ env' = Hybrid_train_step_tape(stepWeight')
    /\ pc' = "hyb_grad_g"
    /\ UNCHANGED <<notTrain, runLog, runVars, epoch, params, optIter, e_t, e_f>>

\* train_step raises in its forward pass: nothing in fit catches it
Hybrid_train_step_raises ==
    /\ IsHybrid /\ pc = "train" /\ batch < NumTrain
    /\ stepNo' = stepNo + 1
    /\ steps' = [steps EXCEPT !["train"][epoch] = @ + 1]
    /\ batch' = batch + 1
    /\ raised' = TRUE
    /\ pc' = "raised"
    /\ UNCHANGED <<notTrain, runVars, schedVars, netState, stepLocals, epoch, training,
                   applied, metrics, stats, images, csv, events>>

\* gen_gradients = tape.gradient(gen_loss, self.generator.trainable_variables)
Hybrid_train_step_gen_gradients ==
    /\ IsHybrid /\ pc = "hyb_grad_g"
    /\ gGrad' = TapeGradient
    /\ env' = Bind(env, "gen_gradients", Gradient(env.gen_loss, "generator"))
    /\ pc' = "hyb_grad_d"
    /\ UNCHANGED <<notTrain, runLog, runVars, schedVars, netState, epoch, batch, training,
                   stepNo, steps, applied, tape, dGrad, computed, lambda_t, stepWeight>>

\* Variation of Hybrid_train_step_disc_gradients: the generator update is applied
\* before the discriminator gradient is taken.
Hybrid_train_step_disc_gradients_late ==
    /\ IsHybrid /\ pc = "hyb_grad_d"
    /\ ApplyGradients("optimizer_g", gGrad, "generator")
    /\ dGrad' = <<tape[1], params["generator"] + 1, params["discriminator"]>>
    /\ env' = Bind(env, "disc_gradients", Gradient(env.disc_loss, "discriminator"))
    /\ pc' = "hyb_apply_d"
    /\ UNCHANGED <<notTrain, runLog, runVars, schedVars, epoch, batch, training, stepNo,
                   steps, bnStats, tape, gGrad, computed, lambda_t, stepWeight>>

\* disc_gradients = tape.gradient(disc_loss, self.discriminator.trainable_variables)
Hybrid_train_step_disc_gradients ==
    /\ IsHybrid /\ pc = "hyb_grad_d"
    /\ dGrad' = TapeGradient
    /\ env' = Bind(env, "disc_gradients", Gradient(env.disc_loss, "discriminator"))
    /\ pc' = "hyb_apply_g"
    /\ UNCHANGED <<notTrain, runLog, runVars, schedVars, netState, epoch, batch, training,
                   stepNo, steps, applied, tape, gGrad, computed, lambda_t, stepWeight>>

\* self.generator_optimizer.apply_gradients(zip(gen_gradients, generator variables))
Hybrid_train_step_apply_gen ==
    /\ IsHybrid /\ pc = "hyb_apply_g"
    /\ ApplyGradients("optimizer_g", gGrad, "generator")
    /\ pc' = "hyb_apply_d"
    /\ UNCHANGED <<notTrain, runLog, runVars, schedVars, stepLocals, epoch, batch, training,
                   stepNo, steps, bnStats>>

\* Variation of Hybrid_train_step_apply_disc: the discriminator optimizer is given
\* the generator's variables.
Hybrid_train_step_apply_disc_to_gen ==
    /\ IsHybrid /\ pc = "hyb_apply_d"
    /\ ApplyGradients("optimizer_d", dGrad, "generator")
    /\ pc' = "hyb_metrics"
    /\ UNCHANGED <<notTrain, runLog, runVars, schedVars, stepLocals, epoch, batch, training,
                   stepNo, steps, bnStats>>

\* self.discriminator_optimizer.apply_gradients(zip(disc_gradients, discriminator variables))
Hybrid_train_step_apply_disc ==
    /\ IsHybrid /\ pc = "hyb_apply_d"
    /\ ApplyGradients("optimizer_d", dGrad, "discriminator")
    /\ pc' = "hyb_metrics"
    /\ UNCHANGED <<notTrain, runLog, runVars, schedVars, stepLocals, epoch, batch, training,
                   stepNo, steps, bnStats>>

\* the train metrics, then train_step returns
Hybrid_train_step_metrics ==
    /\ IsHybrid /\ pc = "hyb_metrics"
    /\ StepReturns
    /\ pc' = "train"
    /\ UNCHANGED <<notTrain, runLog, runVars, schedVars, netState, epoch, batch, training,
                   stepNo, steps, applied>>

\* validate(test): the body runs eagerly on test.take(1), with training=False
Hybrid_validate ==
    /\ ForwardPass(FALSE, StepTensors)
    /\ lambda_t' = IF variant = "Rising" THEN Rising_generator_loss ELSE None
    /\ stepWeight' = IF variant = "Rising" THEN Rising_generator_loss ELSE None
    /\ env' = Hybrid_train_step_tape(stepWeight')
    /\ UNCHANGED <<params, optIter>>

\* if test_ds is not None: self.validate(test_ds)
Hybrid_fit_validate ==
    /\ IsHybrid /\ pc = "train" /\ batch = NumTrain
    /\ IF hasVal /\ NumVal > 0
         THEN Hybrid_validate
         ELSE UNCHANGED <<netState, stepLocals, training, stepNo, steps, applied>>
    /\ pc' = "epoch_end"
    /\ UNCHANGED <<notTrain, runLog, runVars, schedVars, epoch, batch>>

\* self._metric_update(train_ds, test_ds, epoch); HybridReconstuctor.fit then
\* starts the next epoch, RaisingLamdba.fit goes on to _train_predict
Hybrid_fit_metric_update ==
    /\ IsHybrid /\ pc = "epoch_end"
    /\ StepReturns
    /\ IF variant = "Rising"
         THEN pc' = "train_predict" /\ epoch' = epoch
         ELSE pc' = "epoch" /\ epoch' = epoch + 1
    /\ events' = events \cup {<<epoch, "_metric_update">>}
    /\ UNCHANGED <<notTrain, metrics, stats, images, csv, raised, runVars, schedVars,
                   netState, batch, training, stepNo, steps, applied>>

\* if self.log_dir is not None: self._train_predict(...) for train and validation
Rising_fit_train_predict ==
    /\ variant = "Rising" /\ pc = "train_predict"
    /\ pc' = "epoch"
    /\ epoch' = epoch + 1
    /\ events' = IF log_dir
                   THEN events \cup {<<epoch, "_train_predict", "train">>}
                               \cup (IF hasVal
                                       THEN {<<epoch, "_train_predict", "validation">>}
                                       ELSE {})
                   ELSE events
    /\ UNCHANGED <<notTrain, metrics, stats, images, csv, raised, runVars, schedVars,
                   netState, stepLocals, batch, training, stepNo, steps, applied>>

Hybrid_Next ==
    \/ Hybrid_fit
    \/ Hybrid_fit_epoch
    \/ Hybrid_train_step_forward
    \/ Hybrid_train_step_raises
    \/ Hybrid_train_step_gen_gradients
    \/ Hybrid_train_step_disc_gradients
    \/ Hybrid_train_step_apply_gen
    \/ Hybrid_train_step_apply_disc
    \/ Hybrid_train_step_metrics
    \/ Hybrid_fit_validate
    \/ Hybrid_fit_metric_update
    \/ Rising_fit_train_predict

(***************************************************************************)
(* Model0 (models/model0/model0.py): two generator passes per step.        *)
(***************************************************************************)
\* Model0.fit up to the epoch loop (the images kept for the plots)
Model0_fit ==
    /\ variant = "Model0" /\ pc = "fit"
    /\ pc' = "epoch"
    /\ UNCHANGED <<notTrain, runLog, runVars, schedVars, netState, stepLocals, epoch, batch,
                   training, stepNo, steps, applied>>

\* for epoch in range(self.epochs): and, after the loop, self.stats.to_csv
Model0_fit_epoch ==
    /\ variant = "Model0" /\ pc = "epoch"
    /\ pc' = IF epoch < epochs THEN "train" ELSE "to_csv"
    /\ batch' = 0
    /\ UNCHANGED <<notTrain, runLog, runVars, schedVars, netState, stepLocals, epoch,
                   training, stepNo, steps, applied>>

\* train_step, both passes under gen_tape and disc_tape; self.LAMBDA = 100
Model0_train_step_forward ==
    /\ variant = "Model0" /\ pc = "train" /\ batch < NumTrain
    /\ ForwardPass(TRUE, StepTensors \cup SecondPassTensors)
    /\ env' = Model0_train_step_tape
    /\ batch' = batch + 1
    /\ lambda_t' = None
    /\ stepWeight' = Model0_LAMBDA
    /\ pc' = "m0_grad_g"
    /\ UNCHANGED <<notTrain, runLog, runVars, schedVars, epoch, params, optIter>>

\* Variation of Model0_train_step_raises: fit catches the exception and goes on
\* with the next batch.
Model0_train_step_raises_caught ==
    /\ variant = "Model0" /\ pc = "train" /\ batch < NumTrain
    /\ stepNo' = stepNo + 1
    /\ steps' = [steps EXCEPT !["train"][epoch] = @ + 1]
    /\ batch' = batch + 1
    /\ raised' = TRUE
    /\ pc' = "train"
    /\ UNCHANGED <<notTrain, runVars, schedVars, netState, stepLocals, epoch, training,
                   applied, metrics, stats, images, csv, events>>

\* train_step raises in its forward pass (a shape mismatch, an unreadable
\* image): nothing in fit catches it
Model0_train_step_raises ==
    /\ variant = "Model0" /\ pc = "train" /\ batch < NumTrain
    /\ stepNo' = stepNo + 1
    /\ steps' = [steps EXCEPT !["train"][epoch] = @ + 1]
    /\ batch' = batch + 1
    /\ raised' = TRUE
    /\ pc' = "raised"
    /\ UNCHANGED <<notTrain, runVars, schedVars, netState, stepLocals, epoch, training,
                   applied, metrics, stats, images, csv, events>>

\* generator_gradients = gen_tape.gradient(gen_loss, generator variables)
Model0_train_step_gen_gradients ==
    /\ variant = "Model0" /\ pc = "m0_grad_g"
    /\ gGrad' = TapeGradient
    /\ env' = Bind(env, "generator_gradients", Gradient(env.gen_loss, "generator"))
    /\ pc' = "m0_grad_d"
    /\ UNCHANGED <<notTrain, runLog, runVars, schedVars, netState, epoch, batch, training,
                   stepNo, steps, applied, tape, dGrad, computed, lambda_t, stepWeight>>

\* discriminator_gradients = disc_tape.gradient(disc_loss, discriminator variables)
Model0_train_step_disc_gradients ==
    /\ variant = "Model0" /\ pc = "m0_grad_d"
    /\ dGrad' = TapeGradient
    /\ env' = Bind(env, "discriminator_gradients", Gradient(env.disc_loss, "discriminator"))
    /\ pc' = "m0_apply_g"
    /\ UNCHANGED <<notTrain, runLog, runVars, schedVars, netState, epoch, batch, training,
                   stepNo, steps, applied, tape, gGrad, computed, lambda_t, stepWeight>>

\* self.generator_optimizer.apply_gradients(zip(generator_gradients, generator variables))
Model0_train_step_apply_gen ==
    /\ variant = "Model0" /\ pc = "m0_apply_g"
    /\ "generator_gradients" \in DOMAIN env
    /\ ApplyGradients("optimizer_g", gGrad, "generator")
    /\ pc' = "m0_apply_d"
    /\ UNCHANGED <<notTrain, runLog, runVars, schedVars, stepLocals, epoch, batch, training,
                   stepNo, steps, bnStats>>

\* self.discriminator_optimizer.apply_gradients(zip(discriminator_gradients, ...))
Model0_train_step_apply_disc ==
    /\ variant = "Model0" /\ pc = "m0_apply_d"
    /\ "discriminator_gradients" \in DOMAIN env
    /\ ApplyGradients("optimizer_d", dGrad, "discriminator")
    /\ pc' = "m0_metrics"
    /\ UNCHANGED <<notTrain, runLog, runVars, schedVars, stepLocals, epoch, batch, training,
                   stepNo, steps, bnStats>>

\* The local each training metric is called with at the end of train_step.
MetricArgument ==
    [train_loss_disc |-> "disc_loss",
     train_loss_gen |-> "gen_loss",
     train_acc_real |-> "disc_real_output_first_pass",
     train_acc_generated |-> "disc_generated_output_second_pass"]

\* metric(value): the metric aggregates one more value, here the value the
\* local `name` has in train step `b` of epoch `e`
Sample(e, b, name) == <<e, b, name>>

\* self.train_loss_disc(disc_loss) ... self.train_acc_generated(...), then
\* train_step returns
Model0_train_step_metrics ==
    /\ variant = "Model0" /\ pc = "m0_metrics"
    /\ \A m \in TrainMetrics : MetricArgument[m] \in DOMAIN env
    /\ metrics' = [m \in TrainMetrics |->
                      metrics[m] \cup {Sample(epoch, batch, MetricArgument[m])}]
    /\ StepReturns
    /\ pc' = "train"
    /\ UNCHANGED <<notTrain, runVars, schedVars, netState, epoch, batch, training, stepNo,
                   steps, applied, stats, images, csv, events, raised>>

\* Variation of SavesImages: the images are saved in every epoch.
SavesImages_every_epoch(e) == save_path

\* if ((epoch + 1) % 5 == 0 or epoch == 0) and self.save_path != None:
SavesImages(e) == ((e + 1) % 5 = 0 \/ e = 0) /\ save_path

\* generate_images(..., epoch): plt.savefig(f'{self.save_path}/image_epoch{epoch}.png')
generate_images(n) == images \cup {n}

\* Variation of Model0_fit_epoch_end: the metrics are not reset.
Model0_fit_epoch_end_no_reset ==
    /\ variant = "Model0" /\ pc = "train" /\ batch = NumTrain
    /\ stats' = Append(stats, metrics)
    /\ metrics' = metrics
    /\ images' = IF SavesImages(epoch) THEN generate_images(epoch + 1) ELSE images
    /\ epoch' = epoch + 1
    /\ pc' = "epoch"
    /\ UNCHANGED <<notTrain, runVars, schedVars, netState, stepLocals, batch, training,
                   stepNo, steps, applied, csv, events, raised>>

\* the end of an epoch: print, self.stats.append of the four results,
\* reset_states of the four metrics, generate_images
Model0_fit_epoch_end ==
    /\ variant = "Model0" /\ pc = "train" /\ batch = NumTrain
    /\ stats' = Append(stats, metrics)
    /\ metrics' = reset_states
    /\ images' = IF SavesImages(epoch) THEN generate_images(epoch + 1) ELSE images
    /\ epoch' = epoch + 1
    /\ pc' = "epoch"
    /\ UNCHANGED <<notTrain, runVars, schedVars, netState, stepLocals, batch, training,
                   stepNo, steps, applied, csv, events, raised>>

\* self.stats.to_csv('stats_model0.csv', index = False)
Model0_fit_to_csv ==
    /\ variant = "Model0" /\ pc = "to_csv"
    /\ csv' = Append(csv, stats)
    /\ pc' = "done"
    /\ UNCHANGED <<notTrain, runVars, schedVars, netState, stepLocals, epoch, batch,
                   training, stepNo, steps, applied, metrics, stats, images, events,
                   raised>>

Model0_Next ==
    \/ Model0_fit
    \/ Model0_fit_epoch
    \/ Model0_train_step_forward
    \/ Model0_train_step_raises
    \/ Model0_train_step_gen_gradients
    \/ Model0_train_step_disc_gradients
    \/ Model0_train_step_apply_gen
    \/ Model0_train_step_apply_disc
    \/ Model0_train_step_metrics
    \/ Model0_fit_epoch_end
    \/ Model0_fit_to_csv

(***************************************************************************)
(* A training run: a freshly constructed model, then fit.                  *)
(***************************************************************************)
TrainInit ==
    /\ variant \in Variants
    /\ hasVal \in IF variant \in {"Hybrid", "Rising"} THEN BOOLEAN ELSE {TRUE}
    /\ epochs \in 1..MaxEpochs
    /\ epoch = 0
    /\ batch = 0
    /\ pc = "fit"
    /\ training = FALSE
    /\ stepNo = 0
    /\ params = Zero(Nets)
    /\ optIter = Zero(Opts)
    /\ bnStats = Zero(Nets)
    /\ applied = Zero(Opts \X Nets)
    /\ tape = None
    /\ gGrad = None
    /\ dGrad = None
    /\ computed = {}
    /\ e_t = 0
    /\ e_f = 0
    /\ lambda_t = None
    /\ traced = None
    /\ stepWeight = None
    /\ save_path \in IF variant = "Model0" THEN BOOLEAN ELSE {FALSE}
    /\ log_dir \in IF variant = "Model0" THEN {FALSE} ELSE BOOLEAN
    /\ lamda_f \in IF variant = "Rising" THEN lamda_f_arguments ELSE {0}
    /\ steps = NoSteps
    /\ env = None
    /\ metrics = reset_states
    /\ stats = <<>>
    /\ images = {}
    /\ csv = <<>>
    /\ events = {}
    /\ raised = FALSE

TrainIdle ==
    /\ variant = "none"
    /\ hasVal = FALSE
    /\ epochs = 0
    /\ epoch = 0
    /\ batch = 0
    /\ pc = "idle"
    /\ training = FALSE
    /\ stepNo = 0
    /\ params = Zero(Nets)
    /\ optIter = Zero(Opts)
    /\ bnStats = Zero(Nets)
    /\ applied = Zero(Opts \X Nets)
    /\ tape = None
    /\ gGrad = None
    /\ dGrad = None
    /\ computed = {}
    /\ e_t = 0
    /\ e_f = 0
    /\ lambda_t = None
    /\ traced = None
    /\ stepWeight = None
    /\ save_path = FALSE
    /\ log_dir = FALSE
    /\ lamda_f = 0
    /\ steps = NoSteps
    /\ env = None
    /\ metrics = reset_states
    /\ stats = <<>>
    /\ images = {}
    /\ csv = <<>>
    /\ events = {}
    /\ raised = FALSE

(***************************************************************************)
(* The discriminator losses.  self.loss_object is                          *)
(* tf.keras.losses.BinaryCrossentropy(from_logits=True); a score map is    *)
(* abstracted to one integer logit z, and a loss value is kept in units of *)
(* 1/200 so that halving is exact.                                         *)
(***************************************************************************)
\* logits explored: -MaxLogit..MaxLogit
MaxLogit == 2

Logits == (0 - MaxLogit)..MaxLogit

\* 100 * ln(1 + e^(-z)) for z >= 0, rounded
SoftplusTail(z) ==
    CASE z = 0 -> 69
      [] z = 1 -> 31
      [] z = 2 -> 13
      [] z = 3 -> 5
      [] z = 4 -> 2
      [] OTHER -> 0

\* 100 * ln(1 + e^z), rounded: softplus(z) = z + softplus(-z)
Softplus(z) == IF z >= 0 THEN 100 * z + SoftplusTail(z) ELSE SoftplusTail(0 - z)

\* loss_object(labels, logits) with labels all ones (label = 1) or all zeros
\* (label = 0): the cross-entropy from logits is softplus(-z) against ones and
\* softplus(z) against zeros.
loss_object(label, z) == 2 * (IF label = 1 THEN Softplus(0 - z) ELSE Softplus(z))

\* Variation of P2P_loss_d: the generated pair is scored against ones.
P2P_loss_d_wrong_label(d_y, d_g_x) ==
    LET loss_y == loss_object(1, d_y)
        loss_g_x == loss_object(1, d_g_x)
    IN  (loss_y + loss_g_x) \div 2

\* Pix2Pix._loss_d: 0.5 * (loss_y + loss_g_x)
P2P_loss_d(d_y, d_g_x) ==
    LET loss_y == loss_object(1, d_y)
        loss_g_x == loss_object(0, d_g_x)
    IN  (loss_y + loss_g_x) \div 2

\* RaisingLamdba.discriminator_loss: total_disc_loss * 0.5
Rising_discriminator_loss(real, generated) ==
    LET real_loss == loss_object(1, real)
        generated_loss == loss_object(0, generated)
    IN  (real_loss + generated_loss) \div 2

\* Model0.discriminator_loss: returns total_disc_loss as it is
Model0_discriminator_loss(real, generated) ==
    LET real_loss == loss_object(1, real)
        generated_loss == loss_object(0, generated)
    IN  real_loss + generated_loss

LossClasses == {"Pix2Pix", "Rising", "Model0"}

\* d_loss = self._loss_d(d_y, d_g_x)
P2P_call_loss_d ==
    /\ lossOf = "Pix2Pix" /\ total_disc_loss = None
    /\ total_disc_loss' = <<P2P_loss_d(disc_real_output, disc_generated_output)>>
    /\ UNCHANGED <<notLoss, lossOf, disc_real_output, disc_generated_output>>

\* disc_loss = self.discriminator_loss(disc_real, disc_generated) in RaisingLamdba
Rising_call_discriminator_loss ==
    /\ lossOf = "Rising" /\ total_disc_loss = None
    /\ total_disc_loss' =
          <<Rising_discriminator_loss(disc_real_output, disc_generated_output)>>
    /\ UNCHANGED <<notLoss, lossOf, disc_real_output, disc_generated_output>>

\* disc_loss_first_pass = self.discriminator_loss(...) in Model0
Model0_call_discriminator_loss ==
    /\ lossOf = "Model0" /\ total_disc_loss = None
    /\ total_disc_loss' =
          <<Model0_discriminator_loss(disc_real_output, disc_generated_output)>>
    /\ UNCHANGED <<notLoss, lossOf, disc_real_output, disc_generated_output>>

\* The two scores of a step are any logits.
LossInit ==
    /\ lossOf \in LossClasses
    /\ disc_real_output \in Logits
    /\ disc_generated_output \in Logits
    /\ total_disc_loss = None

LossIdle ==
    /\ lossOf = "none"
    /\ disc_real_output = 0
    /\ disc_generated_output = 0
    /\ total_disc_loss = None

(***************************************************************************)
(* HybridReconstuctor.get_dataset (models/hybrid_reconstuctor.py).  The    *)
(* tuples of the concatenated dataset are numbered 1..n_files.  The code   *)
(* expects 300 images per ruin model; the model scales that literal down   *)
(* to ImagesPerRuin so that the shuffles can be enumerated.                *)
(***************************************************************************)
MaxTemples == 2
MaxRuinsPerTemple == 1
ImagesPerRuin == 2
MaxFiles == 4

Min(a, b) == IF a < b THEN a ELSE b

Range(q) == {q[i] : i \in 1..Len(q)}

\* Python's round(a / b) for a >= 0, b > 0: to nearest, ties to even
Round(a, b) ==
    LET q == a \div b
        r == a % b
    IN  IF 2 * r < b THEN q
        ELSE IF 2 * r > b THEN q + 1
        ELSE IF q % 2 = 0 THEN q ELSE q + 1

\* The orders in which a shuffle buffer holding `buf`, refilled from `rest`, can
\* emit: it emits any element it holds and takes the next input in its place.
RECURSIVE ShuffleFrom(_, _)
ShuffleFrom(buf, rest) ==
    IF buf = {} THEN {<<>>}
    ELSE UNION { { <<e>> \o t :
                     t \in ShuffleFrom((buf \ {e}) \cup
                                         (IF rest = <<>> THEN {} ELSE {Head(rest)}),
                                       IF rest = <<>> THEN <<>> ELSE Tail(rest)) }
                 : e \in buf }

\* Dataset.shuffle(size): the orders one iteration can produce
Shuffle(q, size) ==
    ShuffleFrom({q[i] : i \in 1..Min(size, Len(q))},
                SubSeq(q, Min(size, Len(q)) + 1, Len(q)))

\* Dataset.take(k) and Dataset.skip(k)
Take(q, k) == SubSeq(q, 1, Min(k, Len(q)))
Skip(q, k) == SubSeq(q, Min(k, Len(q)) + 1, Len(q))

\* train_dataset after the concatenation of the per-temple datasets
Concatenated == [i \in 1..n_files |-> i]

\* What one iteration of `train` can yield, as a set: the dataset is
\* train_dataset.shuffle(buffer_size).take(train_size).shuffle(1000,
\* reshuffle_each_iteration=False).batch(1), and train_dataset.shuffle(buffer_size)
\* reshuffles on every iteration; the inner shuffle and batch(1) keep the set.
TrainIterations == {Range(Take(q, train_size)) : q \in Shuffle(Concatenated, buffer_size)}

\* What one iteration of `validation` can yield:
\* train_dataset.shuffle(buffer_size).skip(train_size).shuffle(1000, ...).batch(1)
ValidationIterations ==
    {Range(Skip(q, train_size)) : q \in Shuffle(Concatenated, buffer_size)}

\* get_dataset: buffer_size, the shuffle and the train/val split
Hybrid_get_dataset ==
    /\ dsPc = "args"
    /\ buffer_size' = n_temples * ruins_per_temple * ImagesPerRuin
    /\ train_size' = buffer_size' - Round(buffer_size' * split, 100)
    /\ dsPc' = "train"
    /\ UNCHANGED <<notData, n_temples, ruins_per_temple, split, n_files, dsEpoch,
                   trainYields, valYields>>

\* for ruin, temple, color in train_ds: one epoch's pass over train
Iterate_train ==
    /\ dsPc = "train" /\ dsEpoch < MaxEpochs
    /\ \E yield \in TrainIterations : trainYields' = trainYields \cup {yield}
    /\ dsPc' = "validation"
    /\ UNCHANGED <<notData, n_temples, ruins_per_temple, split, n_files, buffer_size,
                   train_size, dsEpoch, valYields>>

\* one epoch's pass over validation
Iterate_validation ==
    /\ dsPc = "validation"
    /\ \E yield \in ValidationIterations : valYields' = valYields \cup {yield}
    /\ dsEpoch' = dsEpoch + 1
    /\ dsPc' = "train"
    /\ UNCHANGED <<notData, n_temples, ruins_per_temple, split, n_files, buffer_size,
                   train_size, trainYields>>

\* The arguments of get_dataset and the files found on disk.
DataInit ==
    /\ dsPc = "args"
    /\ n_temples \in 1..MaxTemples
    /\ ruins_per_temple \in 1..MaxRuinsPerTemple
    /\ split \in {20, 25, 50}
    /\ n_files \in 1..MaxFiles
    /\ buffer_size = 0
    /\ train_size = 0
    /\ dsEpoch = 0
    /\ trainYields = {}
    /\ valYields = {}

DataIdle ==
    /\ dsPc = "idle"
    /\ n_temples = 0
    /\ ruins_per_temple = 0
    /\ split = 0
    /\ n_files = 0
    /\ buffer_size = 0
    /\ train_size = 0
    /\ dsEpoch = 0
    /\ trainYields = {}
    /\ valYields = {}

(***************************************************************************)
(* HybridReconstuctor.get_single_dataset (models/hybrid_reconstuctor.py),  *)
(* called with training=True as get_dataset calls it.                      *)
(***************************************************************************)
\* glob.glob(...): a listing of n paths
Listing(n) == [i \in 1..n |-> i]

\* dataset.repeat(count) of the elements of seq; repeat(0) is empty
Repeat(seq, count) ==
    [i \in 1..(Len(seq) * count) |-> seq[((i - 1) % Len(seq)) + 1]]

\* tf.data.Dataset.zip((a, b, c)): stops with the shortest
Zip3(a, b, c) ==
    [i \in 1..Min(Len(a), Min(Len(b), Len(c))) |-> <<a[i], b[i], c[i]>>]

\* repetition = len(ruins_path_list) // len(temple_path_list): an empty temple
\* listing raises ZeroDivisionError
get_single_dataset_repetition ==
    /\ gsPc = "glob"
    /\ IF Len(temple_path_list) = 0
         THEN /\ gsPc' = "raised"
              /\ repetition' = repetition
         ELSE /\ gsPc' = "list_files"
              /\ repetition' = Len(ruins_path_list) \div Len(temple_path_list)
    /\ UNCHANGED <<notFiles, ruins_path_list, colors_path_list, temple_path_list, dataset>>

\* list_files of the three listings (an empty listing raises "No files matched
\* pattern"), repeat of the colours and temples, zip, map
get_single_dataset_zip ==
    /\ gsPc = "list_files"
    /\ IF Len(ruins_path_list) = 0 \/ Len(colors_path_list) = 0
         THEN /\ gsPc' = "raised"
              /\ dataset' = dataset
         ELSE /\ gsPc' = "returned"
              /\ dataset' = Zip3(ruins_path_list,
                                 Repeat(temple_path_list, repetition),
                                 Repeat(colors_path_list, repetition))
    /\ UNCHANGED <<notFiles, ruins_path_list, colors_path_list, temple_path_list, repetition>>

FilesInit ==
    /\ gsPc = "glob"
    /\ ruins_path_list \in {Listing(n) : n \in 0..MaxRuinPaths}
    /\ colors_path_list \in {Listing(n) : n \in 0..MaxTemplePaths}
    /\ temple_path_list \in {Listing(n) : n \in 0..MaxTemplePaths}
    /\ repetition = 0
    /\ dataset = <<>>

FilesIdle ==
    /\ gsPc = "idle"
    /\ ruins_path_list = <<>>
    /\ colors_path_list = <<>>
    /\ temple_path_list = <<>>
    /\ repetition = 0
    /\ dataset = <<>>

ConfigIdle ==
    /\ pp_IMG = <<0, 0>>
    /\ cp_IMG = <<0, 0>>
    /\ cp_TGT = <<0, 0>>
    /\ models = <<>>
    /\ m0_datasets = <<>>
    /\ jitter_trace = None
    /\ input_shapes = <<>>
    /\ cp_datasets = <<>>

SplitIdle ==
    /\ gdPc = "idle"
    /\ input_path = <<>>
    /\ real_path = <<>>
    /\ repeat_real = 0
    /\ train_input = <<>>
    /\ train_real = <<>>
    /\ test_input = <<>>
    /\ test_real = <<>>
    /\ train_dataset = <<>>
    /\ test_dataset = <<>>

JitterIdle ==
    /\ jtPc = "idle"
    /\ preprocessing = "none"
    /\ IMG_WIDTH = 0
    /\ IMG_HEIGHT = 0
    /\ TGT_WIDTH = 0
    /\ TGT_HEIGHT = 0
    /\ jitter_images = <<>>

(***************************************************************************)
(* Model0.gen_dataset (models/model0/model0.py).  A path is the rank of    *)
(* its name in lexicographic order.  input_path holds repeat_real inputs   *)
(* per real path, in repeat_real consecutive blocks aligned with           *)
(* real_path.                                                              *)
(***************************************************************************)
\* Python's list * count
Times(seq, count) == [i \in 1..(Len(seq) * count) |-> seq[((i - 1) % Len(seq)) + 1]]

\* len(real_path)//100
Hundredth == Len(real_path) \div 100

\* Variation of test_mask: each block gives its first fifth to the test selection.
test_mask_first ==
    Times(Times(<<TRUE>>, Hundredth * 2) \o Times(<<FALSE>>, Hundredth * 8), 10)

\* test_mask = ([False] * (len(real_path)//100 * 8) + [True] * (len(real_path)//100 * 2)) * 10
test_mask ==
    Times(Times(<<FALSE>>, Hundredth * 8) \o Times(<<TRUE>>, Hundredth * 2), 10)

\* train_mask = ([True] * (len(real_path)//100 * 8) + [False] * (len(real_path)//100 * 2)) * 10
train_mask ==
    Times(Times(<<TRUE>>, Hundredth * 8) \o Times(<<FALSE>>, Hundredth * 2), 10)

\* The elements of data[lo..hi] whose selector is true, in order.
RECURSIVE compressBetween(_, _, _, _)
compressBetween(data, selectors, lo, hi) ==
    IF lo > hi
      THEN <<>>
      ELSE IF lo = hi
             THEN IF selectors[lo] THEN <<data[lo]>> ELSE <<>>
             ELSE LET mid == (lo + hi) \div 2
                  IN  compressBetween(data, selectors, lo, mid)
                        \o compressBetween(data, selectors, mid + 1, hi)

\* list(itertools.compress(data, selectors)): stops with the shorter of the two
compress(data, selectors) ==
    compressBetween(data, selectors, 1, Min(Len(data), Len(selectors)))

\* a name sorts before another
Before(a, b) == a < b

\* tf.data.Dataset.list_files(paths, shuffle=False): every path is a pattern
\* matching its file; the matched names are yielded sorted
list_files(paths) == SortSeq(paths, Before)

\* tf.data.Dataset.zip((a, b)): stops with the shorter
Zip2(a, b) == [i \in 1..Min(Len(a), Len(b)) |-> <<a[i], b[i]>>]

\* the masks and the four selections
gen_dataset_compress ==
    /\ gdPc = "masks"
    /\ train_input' = compress(input_path, Times(train_mask, repeat_real))
    /\ train_real' = compress(real_path, train_mask)
    /\ test_input' = compress(input_path, Times(test_mask, repeat_real))
    /\ test_real' = compress(real_path, test_mask)
    /\ gdPc' = "list_files"
    /\ UNCHANGED <<notSplit, input_path, real_path, repeat_real, train_dataset, test_dataset>>

\* list_files of the four selections (an empty selection raises "No files
\* matched pattern"), repeat of the real paths, zip, map, shuffle, batch
gen_dataset_zip ==
    /\ gdPc = "list_files"
    /\ IF \E sel \in {train_input, train_real, test_input, test_real} : Len(sel) = 0
         THEN /\ gdPc' = "raised"
              /\ UNCHANGED <<train_dataset, test_dataset>>
         ELSE /\ gdPc' = "returned"
              /\ train_dataset' = Zip2(list_files(train_input),
                                       Repeat(list_files(train_real), repeat_real))
              /\ test_dataset' = Zip2(list_files(test_input),
                                      Repeat(list_files(test_real), repeat_real))
    /\ UNCHANGED <<notSplit, input_path, real_path, repeat_real, train_input, train_real,
                   test_input, test_real>>

\* The inputs of n real paths, `count` per real path, as `count` blocks aligned
\* with real_path, every block in a directory of its own: the names of a
\* block sort together, in the order of the real paths.
inputs_named_by_block(n, count) == Listing(n * count)

\* The same layout with all inputs of a real path named after it
\* (<real>_<block>): the names of the inputs of one real path sort together.
inputs_named_by_real(n, count) ==
    [k \in 1..(n * count) |-> ((k - 1) % n) * count + ((k - 1) \div n) + 1]

SplitInit ==
    /\ gdPc = "masks"
    /\ real_path \in {Listing(n) : n \in 0..MaxPaths}
    /\ repeat_real \in 1..MaxRepeat
    /\ input_path \in {inputs_named_by_block(Len(real_path), repeat_real),
                       inputs_named_by_real(Len(real_path), repeat_real)}
    /\ train_input = <<>>
    /\ train_real = <<>>
    /\ test_input = <<>>
    /\ test_real = <<>>
    /\ train_dataset = <<>>
    /\ test_dataset = <<>>

(***************************************************************************)
(* The module-level image dimensions: pix2pix_preprocessing, written by    *)
(* Model0.__init__, and custom_preprocessing, written by                   *)
(* HybridReconstuctor.get_dataset.  Dataset.map traces the function it is  *)
(* given when it is called: what the function reads from module attributes *)
(* is frozen into the dataset's graph at that moment.                      *)
(***************************************************************************)
\* The dimension pairs the calls are explored with.
Shapes == {<<512, 256>>, <<256, 256>>}

\* pix2pix_preprocessing: IMG_WIDTH = 512, IMG_HEIGHT = 256
pp_IMG_default == <<512, 256>>

\* custom_preprocessing: IMG_WIDTH = 512, IMG_HEIGHT = 384
cp_IMG_default == <<512, 384>>

\* custom_preprocessing: TGT_WIDTH = 512, TGT_HEIGHT = 256
cp_TGT_default == <<512, 256>>

\* Variation of Model0_init: the instance keeps its dimensions to itself.
Model0_init_own_dimensions(img_width, img_height) ==
    /\ Len(models) < MaxModels
    /\ models' = Append(models, <<img_width, img_height>>)
    /\ pp_IMG' = pp_IMG
    /\ UNCHANGED <<notConfig, cp_IMG, cp_TGT, m0_datasets, jitter_trace, input_shapes,
                   cp_datasets>>

\* Model0(img_width=..., img_height=...): preprocessing.IMG_WIDTH = img_width,
\* preprocessing.IMG_HEIGHT = img_height
Model0_init(img_width, img_height) ==
    /\ Len(models) < MaxModels
    /\ models' = Append(models, <<img_width, img_height>>)
    /\ pp_IMG' = <<img_width, img_height>>
    /\ UNCHANGED <<notConfig, cp_IMG, cp_TGT, m0_datasets, jitter_trace, input_shapes,
                   cp_datasets>>

\* models[owner].gen_dataset(...): the two map calls trace load_images_train
\* and load_images_test.  load_images_test reads IMG_HEIGHT and IMG_WIDTH as
\* they are now.  load_images_train reads them inside random_jitter, a
\* tf.function of its own: it is traced now, or the trace made for an earlier
\* dataset is reused, with the dimensions it read then.
Model0_gen_dataset_map(owner) ==
    /\ owner \in 1..Len(models)
    /\ Len(m0_datasets) < MaxCalls
    /\ \E dims \in {pp_IMG} \cup (IF jitter_trace = None THEN {} ELSE {jitter_trace}) :
          /\ jitter_trace' = dims
          /\ m0_datasets' = Append(m0_datasets,
                                   [owner |-> owner, constructed |-> Len(models),
                                    train |-> dims, test |-> pp_IMG])
    /\ UNCHANGED <<notConfig, pp_IMG, cp_IMG, cp_TGT, models, input_shapes, cp_datasets>>

\* get_dataset(..., input_shape=...): if input_shape is not None:
\* cp.IMG_WIDTH, cp.IMG_HEIGHT = input_shape; then get_single_dataset maps
\* cp.load_images_train, which reads IMG_* and TGT_* as they are now
Hybrid_get_dataset_input_shape(input_shape) ==
    /\ Len(input_shapes) < MaxCalls
    /\ cp_IMG' = IF input_shape # None THEN input_shape ELSE cp_IMG
    /\ input_shapes' = Append(input_shapes, input_shape)
    /\ cp_datasets' = Append(cp_datasets, [img |-> cp_IMG', tgt |-> cp_TGT])
    /\ UNCHANGED <<notConfig, pp_IMG, cp_TGT, models, m0_datasets, jitter_trace>>

ConfigInit ==
    /\ pp_IMG = pp_IMG_default
    /\ cp_IMG = cp_IMG_default
    /\ cp_TGT = cp_TGT_default
    /\ models = <<>>
    /\ m0_datasets = <<>>
    /\ jitter_trace = None
    /\ input_shapes = <<>>
    /\ cp_datasets = <<>>

(***************************************************************************)
(* random_jitter of deprecated/utils/pix2pix_preprocessing.py (two images) *)
(* and of deprecated/utils/custom_preprocessing.py (a tuple of images).    *)
(***************************************************************************)
Modules == {"pix2pix_preprocessing", "custom_preprocessing"}

\* pix2pix_preprocessing: RESIZE_FACTOR = 1.1
pp_RESIZE_FACTOR == <<11, 10>>

\* custom_preprocessing: RESIZE_FACTOR = 1.3
cp_RESIZE_FACTOR == <<13, 10>>

RESIZE_FACTOR ==
    IF preprocessing = "pix2pix_preprocessing" THEN pp_RESIZE_FACTOR ELSE cp_RESIZE_FACTOR

\* load: the image read from the path at position i of the tuple, of the size
\* of its file
load(i, shape) ==
    [source |-> i, width |-> shape[1], height |-> shape[2], of |-> shape,
     left |-> 0, top |-> 0, mirrored |-> FALSE]

\* tf.image.resize(image, [height, width], method=NEAREST_NEIGHBOR)
resize_image(image, width, height) ==
    [image EXCEPT !.width = width, !.height = height, !.of = <<width, height>>,
                  !.left = 0, !.top = 0]

\* resize: every image of the tuple
resize(width, height, imgs) ==
    [i \in DOMAIN imgs |-> resize_image(imgs[i], width, height)]

\* The size argument of tf.image.random_crop, as <<width, height>>:
\* [2, IMG_HEIGHT, IMG_WIDTH, 3] in pix2pix_preprocessing,
\* [len(images), TGT_HEIGHT, TGT_WIDTH, 3] in custom_preprocessing.
crop_size ==
    IF preprocessing = "pix2pix_preprocessing"
      THEN <<IMG_WIDTH, IMG_HEIGHT>>
      ELSE <<TGT_WIDTH, TGT_HEIGHT>>

\* Variation of random_crop: only the first image is cut at the drawn offsets,
\* the others at the top left corner.
random_crop_first_image(imgs, left, top) ==
    [i \in DOMAIN imgs |->
        [imgs[i] EXCEPT !.left = IF i = 1 THEN @ + left ELSE @,
                        !.top = IF i = 1 THEN @ + top ELSE @,
                        !.width = crop_size[1], !.height = crop_size[2]]]

\* random_crop: tf.stack, tf.image.random_crop(stack, size) with the offsets
\* it drew for the width and height axes (the offset of the stacking axis and
\* of the channel axis is 0, their sizes being whole), and the unstacking.
random_crop(imgs, left, top) ==
    [i \in DOMAIN imgs |->
        [imgs[i] EXCEPT !.left = @ + left, !.top = @ + top,
                        !.width = crop_size[1], !.height = crop_size[2]]]

\* tf.image.flip_left_right(image)
flip_left_right(image) == [image EXCEPT !.mirrored = ~@]

\* new_width = round(IMG_WIDTH * RESIZE_FACTOR), new_height = round(IMG_HEIGHT *
\* RESIZE_FACTOR); images = resize(new_width, new_height, images)
random_jitter_resize ==
    /\ jtPc = "resize"
    /\ LET new_width == Round(IMG_WIDTH * RESIZE_FACTOR[1], RESIZE_FACTOR[2])
           new_height == Round(IMG_HEIGHT * RESIZE_FACTOR[1], RESIZE_FACTOR[2])
       IN  jitter_images' = resize(new_width, new_height, jitter_images)
    /\ jtPc' = "random_crop"
    /\ UNCHANGED <<notJitter, preprocessing, IMG_WIDTH, IMG_HEIGHT, TGT_WIDTH, TGT_HEIGHT>>

\* images = random_crop(images): tf.image.random_crop draws every offset
\* uniformly from 0 .. shape - size, and fails ("Need value.shape >= size")
\* when the stack is smaller than the size along an axis.
random_jitter_random_crop ==
    /\ jtPc = "random_crop"
    /\ LET slack_width == jitter_images[1].width - crop_size[1]
           slack_height == jitter_images[1].height - crop_size[2]
       IN  IF slack_width < 0 \/ slack_height < 0
             THEN /\ jtPc' = "raised"
                  /\ UNCHANGED jitter_images
             ELSE /\ jtPc' = "flip"
                  /\ \E left \in 0..slack_width, top \in 0..slack_height :
                        jitter_images' = random_crop(jitter_images, left, top)
    /\ UNCHANGED <<notJitter, preprocessing, IMG_WIDTH, IMG_HEIGHT, TGT_WIDTH, TGT_HEIGHT>>

\* if tf.random.uniform(()) > 0.5: every image is flipped left-right
random_jitter_flip ==
    /\ jtPc = "flip"
    /\ \E uniform_above_half \in BOOLEAN :
          jitter_images' = IF uniform_above_half
                             THEN [i \in DOMAIN jitter_images |->
                                      flip_left_right(jitter_images[i])]
                             ELSE jitter_images
    /\ jtPc' = "returned"
    /\ UNCHANGED <<notJitter, preprocessing, IMG_WIDTH, IMG_HEIGHT, TGT_WIDTH, TGT_HEIGHT>>

\* A call of random_jitter from load_images_train: pix2pix_preprocessing with
\* the dimensions a Model0 has set or its own, on the two images of a pair;
\* custom_preprocessing with the dimensions get_dataset has set or its own, on
\* the three images get_single_dataset zips.
JitterInit ==
    /\ jtPc = "resize"
    /\ preprocessing \in Modules
    /\ \E shape \in Shapes \cup {IF preprocessing = "pix2pix_preprocessing"
                                   THEN pp_IMG_default ELSE cp_IMG_default} :
          IMG_WIDTH = shape[1] /\ IMG_HEIGHT = shape[2]
    /\ TGT_WIDTH = IF preprocessing = "pix2pix_preprocessing" THEN 0 ELSE cp_TGT_default[1]
    /\ TGT_HEIGHT = IF preprocessing = "pix2pix_preprocessing" THEN 0 ELSE cp_TGT_default[2]
    /\ jitter_images \in
          {[i \in 1..(IF preprocessing = "pix2pix_preprocessing" THEN 2 ELSE 3) |->
               load(i, shape)] : shape \in Shapes}

(***************************************************************************)
(* The layer graphs: generator and discriminator of pix2pix_updated.py and *)
(* of Model0, followed on inputs of a concrete size.                       *)
(***************************************************************************)
\* input heights and widths explored: 128, 256, ..., 128 * MaxUnits
MaxUnits == 4

Sizes == {128 * k : k \in 1..MaxUnits}

Generators == {"P2P_generator", "Model0_generator"}
Discriminators == {"P2P_discriminator", "Model0_discriminator"}

Tensor(h, w, c, deps) == [h |-> h, w |-> w, c |-> c, deps |-> deps]

NoTensor == Tensor(0, 0, 0, {})

\* tf.keras.layers.Input(shape=[None, None, 3]) fed an image of the input size
Input(name) == Tensor(in_h, in_w, 3, {name})

\* Conv2D(filters, 4, strides=2, padding='same'): ceil(size / 2)
Conv2D_same_stride2(filters, t) ==
    Tensor((t.h + 1) \div 2, (t.w + 1) \div 2, filters, t.deps)

\* Conv2DTranspose(filters, 4, strides=2, padding='same'): size * 2
Conv2DTranspose_same_stride2(filters, t) == Tensor(t.h * 2, t.w * 2, filters, t.deps)

\* Conv2D(filters, 4, strides=1), padding 'valid': size - 3
Conv2D_valid(filters, t) == Tensor(t.h - 3, t.w - 3, filters, t.deps)

\* ZeroPadding2D(): one row / column on every side
ZeroPadding2D(t) == Tensor(t.h + 2, t.w + 2, t.c, t.deps)

\* downsample(filters, size, ...): the convolution decides shape and data path;
\* the normalisation and LeakyReLU keep both.
downsample(filters, t) == Conv2D_same_stride2(filters, t)

\* upsample(filters, size, ...)
upsample(filters, t) == Conv2DTranspose_same_stride2(filters, t)

\* Concatenate along the channel axis; the other axes must agree.
CanConcatenate(a, b) == a.h = b.h /\ a.w = b.w

Concatenate(a, b) == Tensor(a.h, a.w, a.c + b.c, a.deps \cup b.deps)

P2P_down_stack == <<64, 128, 256, 512, 512, 512, 512, 512>>
P2P_up_stack == <<512, 512, 512, 512, 256, 128, 64>>

Model0_down_stack == <<64, 128, 256, 512, 512, 512, 512, 512>>
Model0_up_stack == <<512, 512, 512, 512, 256, 128, 64>>

down_stack == IF netOf = "Model0_generator" THEN Model0_down_stack ELSE P2P_down_stack
up_stack == IF netOf = "Model0_generator" THEN Model0_up_stack ELSE P2P_up_stack

Reverse(q) == [i \in 1..Len(q) |-> q[Len(q) + 1 - i]]

\* Variation of ReversedSkips: the last encoder output is kept as a skip.
ReversedSkips_keep_last(q) == Reverse(q)

\* skips = reversed(skips[:-1])
ReversedSkips(q) == Reverse(SubSeq(q, 1, Len(q) - 1))

\* Variation of last_layer: the final transposed convolution has stride 1.
last_layer_stride1(filters, t) == Tensor(t.h, t.w, filters, t.deps)

\* last = Conv2DTranspose(out_dims, 4, strides=2, padding='same', ...)
last_layer(filters, t) == Conv2DTranspose_same_stride2(filters, t)

\* the input layers: `heads` inputs, concatenated when there are several
generator_inputs ==
    /\ netOf \in Generators /\ netPc = "inputs"
    /\ x' = IF heads > 1
              THEN Concatenate(Input("input_1"), Input("input_2"))
              ELSE Input("input_1")
    /\ netPc' = "down"
    /\ UNCHANGED <<notGraph, netOf, heads, out_dims, in_h, in_w, out, skips, concats,
                   dlayer, multiplier>>

\* for down in down_stack: x = down(x); skips.append(x)
generator_down ==
    /\ netOf \in Generators /\ netPc = "down" /\ Len(skips) < Len(down_stack)
    /\ LET block == Len(skips) + 1
           y == downsample(down_stack[block], x)
       IN  /\ x' = y
           /\ skips' = Append(skips, [t |-> y, block |-> block])
    /\ UNCHANGED <<notGraph, netOf, heads, out_dims, in_h, in_w, netPc, out, concats,
                   dlayer, multiplier>>

\* skips = reversed(skips[:-1])
generator_reverse_skips ==
    /\ netOf \in Generators /\ netPc = "down" /\ Len(skips) = Len(down_stack)
    /\ skips' = ReversedSkips(skips)
    /\ netPc' = "up"
    /\ UNCHANGED <<notGraph, netOf, heads, out_dims, in_h, in_w, x, out, concats, dlayer,
                   multiplier>>

\* for up, skip in zip(up_stack, skips): x = up(x); x = concat([x, skip]);
\* Concatenate raises when the two shapes differ outside the channel axis.
generator_up ==
    /\ netOf \in Generators /\ netPc = "up"
    /\ Len(concats) < Min(Len(up_stack), Len(skips))
    /\ LET j == Len(concats) + 1
           y == upsample(up_stack[j], x)
           skip == skips[j]
       IN  /\ concats' = Append(concats, [dec |-> y, enc |-> skip.t,
                                          block |-> skip.block])
           /\ IF CanConcatenate(y, skip.t)
                THEN x' = Concatenate(y, skip.t) /\ netPc' = "up"
                ELSE x' = y /\ netPc' = "error"
    /\ UNCHANGED <<notGraph, netOf, heads, out_dims, in_h, in_w, out, skips, dlayer,
                   multiplier>>

\* x = last(x); return tf.keras.Model(inputs=..., outputs=x)
generator_last ==
    /\ netOf \in Generators /\ netPc = "up"
    /\ Len(concats) = Min(Len(up_stack), Len(skips))
    /\ x' = last_layer(out_dims, x)
    /\ out' = x'
    /\ netPc' = "done"
    /\ UNCHANGED <<notGraph, netOf, heads, out_dims, in_h, in_w, skips, concats, dlayer,
                   multiplier>>

\* discriminator(): x = concatenate([inp, target_image]); multiplier = 1
P2P_discriminator_concatenate ==
    /\ netOf = "P2P_discriminator" /\ netPc = "inputs"
    /\ x' = Concatenate(Input("input_image"), Input("target_image"))
    /\ multiplier' = 1
    /\ dlayer' = 0
    /\ netPc' = "layers"
    /\ UNCHANGED <<notGraph, netOf, heads, out_dims, in_h, in_w, out, skips, concats>>

\* for layer in range(layers): with layers=4, initial_units=64
P2P_discriminator_layer ==
    /\ netOf = "P2P_discriminator" /\ netPc = "layers" /\ dlayer < 4
    /\ x' = downsample(64 * multiplier, x)
    /\ multiplier' = IF dlayer = 1 \/ multiplier < 8 THEN multiplier * 2 ELSE multiplier
    /\ dlayer' = dlayer + 1
    /\ UNCHANGED <<notGraph, netOf, heads, out_dims, in_h, in_w, netPc, out, skips,
                   concats>>

\* last = Conv2D(1, 4, strides=1, ...)(x); Model(inputs=[inp, target_image], outputs=last)
P2P_discriminator_last ==
    /\ netOf = "P2P_discriminator" /\ netPc = "layers" /\ dlayer = 4
    /\ out' = Conv2D_valid(1, x)
    /\ netPc' = "done"
    /\ UNCHANGED <<notGraph, netOf, heads, out_dims, in_h, in_w, x, skips, concats, dlayer,
                   multiplier>>

\* Model0.discriminator: x = tf.keras.layers.concatenate([inp, tar])
Model0_discriminator_concatenate ==
    /\ netOf = "Model0_discriminator" /\ netPc = "inputs"
    /\ x' = Concatenate(Input("input_image"), Input("target_image"))
    /\ netPc' = "down"
    /\ UNCHANGED <<notGraph, netOf, heads, out_dims, in_h, in_w, out, skips, concats,
                   dlayer, multiplier>>

\* down1 = downsample(64, 4, False)(inp); down2 = ...(down1); down3 = ...(down2)
Model0_discriminator_down ==
    /\ netOf = "Model0_discriminator" /\ netPc = "down"
    /\ out' = downsample(256, downsample(128, downsample(64, Input("input_image"))))
    /\ netPc' = "conv"
    /\ UNCHANGED <<notGraph, netOf, heads, out_dims, in_h, in_w, x, skips, concats, dlayer,
                   multiplier>>

\* zero_pad1, conv = Conv2D(512, 4, strides=1)(zero_pad1), batchnorm1, leaky_relu
Model0_discriminator_conv ==
    /\ netOf = "Model0_discriminator" /\ netPc = "conv"
    /\ out' = Conv2D_valid(512, ZeroPadding2D(out))
    /\ netPc' = "last"
    /\ UNCHANGED <<notGraph, netOf, heads, out_dims, in_h, in_w, x, skips, concats, dlayer,
                   multiplier>>

\* zero_pad2, last = Conv2D(1, 4, strides=1)(zero_pad2); Model(inputs=inp, outputs=last)
Model0_discriminator_last ==
    /\ netOf = "Model0_discriminator" /\ netPc = "last"
    /\ out' = Conv2D_valid(1, ZeroPadding2D(out))
    /\ netPc' = "done"
    /\ UNCHANGED <<notGraph, netOf, heads, out_dims, in_h, in_w, x, skips, concats, dlayer,
                   multiplier>>

\* A network and the size of the images it is called on.  Model0's generator
\* has one input and three output channels.
GraphInit ==
    /\ netOf \in Generators \cup Discriminators
    /\ heads \in IF netOf = "P2P_generator" THEN {1, 2} ELSE {1}
    /\ out_dims \in IF netOf = "P2P_generator" THEN {1, 3} ELSE {3}
    /\ in_h \in Sizes
    /\ in_w \in Sizes
    /\ netPc = "inputs"
    /\ x = NoTensor
    /\ out = NoTensor
    /\ skips = <<>>
    /\ concats = <<>>
    /\ dlayer = 0
    /\ multiplier = 1

GraphIdle ==
    /\ netOf = "none"
    /\ heads = 0
    /\ out_dims = 0
    /\ in_h = 0
    /\ in_w = 0
    /\ netPc = "idle"
    /\ x = NoTensor
    /\ out = NoTensor
    /\ skips = <<>>
    /\ concats = <<>>
    /\ dlayer = 0
    /\ multiplier = 1

(***************************************************************************)
(* Specifications.                                                         *)
(***************************************************************************)
\* The parts that the first four specifications leave idle.
RestIdle == FilesIdle /\ ConfigIdle /\ SplitIdle /\ JitterIdle

InitTrain == TrainInit /\ LossIdle /\ DataIdle /\ GraphIdle /\ RestIdle

NextTrain == P2P_Next \/ Hybrid_Next \/ Model0_Next

SpecTrain == InitTrain /\ [][NextTrain]_vars

InitLoss == LossInit /\ TrainIdle /\ DataIdle /\ GraphIdle /\ RestIdle

NextLoss ==
    \/ P2P_call_loss_d
    \/ Rising_call_discriminator_loss
    \/ Model0_call_discriminator_loss

SpecLoss == InitLoss /\ [][NextLoss]_vars

InitData == DataInit /\ TrainIdle /\ LossIdle /\ GraphIdle /\ RestIdle

NextData ==
    \/ Hybrid_get_dataset
    \/ Iterate_train
    \/ Iterate_validation

SpecData == InitData /\ [][NextData]_vars

InitNet == GraphInit /\ TrainIdle /\ LossIdle /\ DataIdle /\ RestIdle

NextNet ==
    \/ generator_inputs
    \/ generator_down
    \/ generator_reverse_skips
    \/ generator_up
    \/ generator_last
    \/ P2P_discriminator_concatenate
    \/ P2P_discriminator_layer
    \/ P2P_discriminator_last
    \/ Model0_discriminator_concatenate
    \/ Model0_discriminator_down
    \/ Model0_discriminator_conv
    \/ Model0_discriminator_last

SpecNet == InitNet /\ [][NextNet]_vars

InitFiles ==
    /\ FilesInit
    /\ TrainIdle /\ LossIdle /\ DataIdle /\ GraphIdle /\ ConfigIdle /\ SplitIdle /\ JitterIdle

NextFiles ==
    \/ get_single_dataset_repetition
    \/ get_single_dataset_zip

SpecFiles == InitFiles /\ [][NextFiles]_vars

InitSplit ==
    /\ SplitInit
    /\ TrainIdle /\ LossIdle /\ DataIdle /\ GraphIdle /\ FilesIdle /\ ConfigIdle /\ JitterIdle

NextSplit ==
    \/ gen_dataset_compress
    \/ gen_dataset_zip

SpecSplit == InitSplit /\ [][NextSplit]_vars

InitConfig ==
    /\ ConfigInit
    /\ TrainIdle /\ LossIdle /\ DataIdle /\ GraphIdle /\ FilesIdle /\ SplitIdle /\ JitterIdle

NextConfig ==
    \/ \E shape \in Shapes : Model0_init(shape[1], shape[2])
    \/ \E owner \in 1..MaxModels : Model0_gen_dataset_map(owner)
    \/ \E input_shape \in Shapes \cup {None} : Hybrid_get_dataset_input_shape(input_shape)

SpecConfig == InitConfig /\ [][NextConfig]_vars

InitJitter ==
    /\ JitterInit
    /\ TrainIdle /\ LossIdle /\ DataIdle /\ GraphIdle /\ FilesIdle /\ ConfigIdle /\ SplitIdle

NextJitter ==
    \/ random_jitter_resize
    \/ random_jitter_random_crop
    \/ random_jitter_flip

SpecJitter == InitJitter /\ [][NextJitter]_vars

(***************************************************************************)
(* Properties of the training step (SpecTrain).                            *)
(***************************************************************************)
\* A training step has applied both of its updates and not yet returned.
TrainStepUpdated ==
    \/ pc = "p2p_summary" /\ training
    \/ pc = "hyb_metrics"
    \/ pc = "m0_metrics"

\* A step is running (its tape is alive).
InStep == tape # None

\* A validation step is running.
InValidation == InStep /\ ~training

\* C1: in every training step of every variant the generator's variables are
\* updated only by the generator optimizer and the discriminator's only by the
\* discriminator optimizer, each exactly once per step; no optimizer is ever
\* applied to the other network's variables.
C1_EachNetworkItsOwnOptimizer ==
    /\ applied[<<"optimizer_g", "discriminator">>] = 0
    /\ applied[<<"optimizer_d", "generator">>] = 0
    /\ applied[<<"optimizer_g", "generator">>] <= 1
    /\ applied[<<"optimizer_d", "discriminator">>] <= 1
    /\ params["generator"] = optIter["optimizer_g"]
    /\ params["discriminator"] = optIter["optimizer_d"]
    /\ TrainStepUpdated =>
          /\ applied[<<"optimizer_g", "generator">>] = 1
          /\ applied[<<"optimizer_d", "discriminator">>] = 1
          /\ params["generator"] = tape[2] + 1
          /\ params["discriminator"] = tape[3] + 1

\* A second training step has applied both updates.
C1_Witness ==
    /\ TrainStepUpdated
    /\ params["generator"] = 2
    /\ params["discriminator"] = 2
    /\ applied[<<"optimizer_g", "generator">>] = 1
    /\ applied[<<"optimizer_d", "discriminator">>] = 1

\* C2 as stated: both gradients of a step come from the step's forward pass and
\* both are computed before any parameter update of that step is applied, so
\* each gradient sees the parameter versions the forward pass saw.
C2_GradientsBeforeAnyUpdate ==
    /\ gGrad # None => gGrad = tape
    /\ dGrad # None => dGrad = tape

\* C2 amended: in every variant both gradients are taken from the tape of the
\* step's single forward pass, and each before its own network is updated.  In
\* HybridReconstuctor.train_step and Model0.train_step both are computed before
\* any update; in Pix2Pix._step the discriminator gradient is computed after the
\* generator update of the step has been applied.
C2_GradientsFromTheStepsTape ==
    /\ gGrad # None => gGrad = tape /\ tape[1] = stepNo
    /\ dGrad # None =>
          /\ dGrad[1] = tape[1] /\ tape[1] = stepNo
          /\ dGrad[3] = tape[3]
          /\ dGrad[2] = IF variant = "Pix2Pix" THEN tape[2] + 1 ELSE tape[2]

\* Pix2Pix has taken the discriminator gradient after the generator update.
C2_Witness ==
    /\ variant = "Pix2Pix"
    /\ dGrad # None
    /\ dGrad[2] = tape[2] + 1
    /\ stepNo > 1

\* C3: a validation step (Pix2Pix._step with training=False,
\* HybridReconstuctor.validate) computes the tensors a training step computes,
\* both losses included, and leaves the parameters and moving statistics of both
\* networks and the state of both optimizers unchanged.
C3_ValidationChangesNothing ==
    /\ [](InStep /\ variant # "Model0" => computed = StepTensors)
    /\ [][InValidation \/ InValidation' => UNCHANGED <<params, optIter, bnStats>>]_vars

\* A validation step runs after the networks have been trained.
C3_Witness ==
    /\ InValidation
    /\ computed = StepTensors
    /\ params["generator"] >= 1
    /\ params["discriminator"] >= 1

\* The Python interpreter has run RaisingLamdba.generator_loss in this step.
LambdaComputed == variant = "Rising" /\ lambda_t # None

\* C4 as stated: the weight generator_loss computes is lambda_i in the first
\* epoch, lambda_f in the last, and inside [lambda_i, lambda_f] in every epoch.
C4_FirstEpochIsLambdaI ==
    LambdaComputed =>
        /\ epoch = 0 => Num(lambda_t) = lambda_i * Den(lambda_t)
        /\ epoch = epochs - 1 => Num(lambda_t) = lambda_f * Den(lambda_t)
        /\ lambda_i * Den(lambda_t) <= Num(lambda_t)
        /\ Num(lambda_t) <= lambda_f * Den(lambda_t)

\* C4 amended: in the epoch of index k (0-based) of fit(epochs=E) the weight is
\* lambda_i + (lambda_f - lambda_i) * (k + 1) / E: linear in k, equal to
\* lambda_i + (lambda_f - lambda_i) / E in the first epoch and to lambda_f in
\* the last, and inside (lambda_i, lambda_f] in every epoch.
C4_LinearFromFirstStep ==
    LambdaComputed =>
        /\ Num(lambda_t) * epochs =
              Den(lambda_t) * (lambda_i * epochs + (lambda_f - lambda_i) * (epoch + 1))
        /\ epoch = epochs - 1 => Num(lambda_t) = lambda_f * Den(lambda_t)
        /\ lambda_i * Den(lambda_t) < Num(lambda_t)
        /\ Num(lambda_t) <= lambda_f * Den(lambda_t)

\* generator_loss has run in the first of several epochs, and not with lambda_i.
C4_Witness ==
    /\ LambdaComputed
    /\ epoch = 0
    /\ epochs > 1
    /\ Num(lambda_t) # lambda_i * Den(lambda_t)

\* C5: the L1 weight applied to the generator loss in every training step of
\* RaisingLamdba is the value scheduled for the running epoch, computed from
\* the e_t and e_f that fit has set.
C5_StepWeightFollowsSchedule ==
    variant = "Rising" /\ InStep /\ training => stepWeight = RisingLambda(e_t, e_f)

(***************************************************************************)
(* Properties of the fit loops and of Model0.train_step (SpecTrain).       *)
(***************************************************************************)
\* What the train steps of epoch e (0-based) contribute to the metric m.
EpochSamples(e, m) == {Sample(e, b, MetricArgument[m]) : b \in 1..NumTrain}

\* C11: in Model0.fit the four training metrics are reset at the end of every
\* epoch: the row recorded for an epoch aggregates exactly the train steps of
\* that epoch, the metrics never hold a value of an earlier epoch, and exactly
\* one row is appended to stats per completed epoch.
C11_MetricsAggregateOneEpoch ==
    variant = "Model0" =>
        /\ Len(stats) = epoch
        /\ \A k \in 1..Len(stats) : \A m \in TrainMetrics :
              stats[k][m] = EpochSamples(k - 1, m)
        /\ \A m \in TrainMetrics : \A smp \in metrics[m] : smp[1] = epoch
        /\ pc \in {"epoch", "to_csv", "done"} => metrics = reset_states

\* Model0 is training in its third epoch, two rows recorded.
C11_Witness ==
    /\ variant = "Model0"
    /\ Len(stats) = 2
    /\ stats[2]["train_loss_disc"] = EpochSamples(1, "train_loss_disc")
    /\ metrics["train_acc_generated"] =
          {Sample(2, 1, "disc_generated_output_second_pass")}

\* The epoch-end calls fit has made for epoch e.
EpochEnd(e) == {ev \in events : ev[1] = e}

\* The epoch-end calls of a completed epoch e that leave a trace.
ExpectedEvents(e) ==
    CASE variant = "Pix2Pix" ->
            IF log_dir
              THEN {<<e, "_log_images", "train">>, <<e, "_log_images", "validation">>}
              ELSE {}
      [] variant = "Hybrid" -> {<<e, "_metric_update">>}
      [] variant = "Rising" ->
            {<<e, "_metric_update">>}
              \cup (IF log_dir THEN {<<e, "_train_predict", "train">>} ELSE {})
              \cup (IF log_dir /\ hasVal THEN {<<e, "_train_predict", "validation">>} ELSE {})
      [] OTHER -> {}

\* A train step begins.
TrainBegins == steps'["train"] # steps["train"]

\* A validation step begins.
ValidationBegins == steps'["validation"] # steps["validation"]

\* A train step begins only when no step runs, before any validation step and
\* any epoch-end call of its epoch, and after every epoch-end call of the epoch
\* before.
TrainStepsFirst ==
    TrainBegins =>
        /\ ~InStep
        /\ steps["validation"][epoch] = 0
        /\ EpochEnd(epoch) = {}
        /\ epoch > 0 => EpochEnd(epoch - 1) = ExpectedEvents(epoch - 1)

\* An epoch-end call is made after the train steps of the epoch and, when
\* there is a validation dataset, after a validation step of the epoch.
EpochEndLast ==
    events' # events =>
        /\ steps["train"][epoch] = NumTrain
        /\ ~(InStep /\ training)
        /\ hasVal /\ ~(<<epoch, "_log_images", "train">> \in events' \ events)
              => steps["validation"][epoch] > 0

\* C12 as stated: in every epoch of fit the train steps complete before any
\* validation step, every epoch-end call (metric update, image logging) is made
\* after the validation steps of the epoch, and no train step of the next epoch
\* begins before the epoch-end calls have been made.
C12_EpochEndAfterValidation ==
    [][/\ variant # "Model0" => TrainStepsFirst
       /\ ValidationBegins => ~InStep /\ EpochEnd(epoch) = {}]_vars

\* C12 amended: the train steps of an epoch complete before any validation
\* step of it and the next epoch's train steps begin after all epoch-end calls.
\* In HybridReconstuctor.fit and RaisingLamdba.fit every epoch-end call follows
\* the validation; in Pix2Pix.fit the training images are logged between the
\* train steps and the validation steps, the validation images after them.
C12_TrainValidationEpochEnd ==
    [][/\ variant # "Model0" => TrainStepsFirst /\ EpochEndLast
       /\ ValidationBegins =>
             /\ ~InStep
             /\ steps["train"][epoch] = NumTrain
             /\ EpochEnd(epoch) = IF variant = "Pix2Pix" /\ log_dir
                                    THEN {<<epoch, "_log_images", "train">>}
                                    ELSE {}]_vars

\* Pix2Pix runs a validation step of its second epoch after it has logged the
\* training images of that epoch.
C12_Witness ==
    /\ variant = "Pix2Pix"
    /\ log_dir
    /\ epoch = 1
    /\ InValidation
    /\ EpochEnd(1) = {<<1, "_log_images", "train">>}
    /\ EpochEnd(0) = ExpectedEvents(0)

\* C13: in every completed epoch of fit one train step has run for each batch
\* of the training dataset and one validation step for each batch of the
\* validation dataset (none when no validation dataset is given), so that
\* fit(epochs=N) returns after N x |train| train steps and N x |validation|
\* validation steps.
C13_OneStepPerBatch ==
    variant # "Model0" /\ ~raised =>
        /\ \A k \in 0..(MaxEpochs - 1) :
              k < epoch =>
                 /\ steps["train"][k] = NumTrain
                 /\ steps["validation"][k] = IF hasVal THEN NumVal ELSE 0
        /\ pc = "done" => epoch = epochs

\* C15: when a train step raises, the exception propagates out of fit and the
\* run stops: nothing is executed after it; Model0.fit writes stats_model0.csv
\* at most once, after the last epoch has completed with all its rows, and
\* never after a failed step.
C15_RaiseAbortsTheRun ==
    /\ [](raised => pc = "raised" /\ csv = <<>>)
    /\ [](/\ Len(csv) <= 1
          /\ csv # <<>> => epoch = epochs /\ Len(stats) = epochs /\ csv[1] = stats)
    /\ [][~raised]_vars

\* A train step of Model0 has raised after a completed epoch.
C15_Witness ==
    /\ variant = "Model0"
    /\ raised
    /\ pc = "raised"
    /\ epoch >= 1
    /\ Len(stats) = epoch
    /\ csv = <<>>

\* C16: in Model0.train_step the second pass feeds the output of the first
\* pass back into the generator; the generator loss is gen_loss_first_pass +
\* SECOND_PASS_LAMBDA * gen_loss_second_pass with SECOND_PASS_LAMBDA = 1.25,
\* the discriminator loss is the unweighted sum of the two passes'
\* discriminator losses, and the gradients the step applies are those of these
\* combined losses.
C16_SecondPassAndCombinedLosses ==
    variant = "Model0" /\ InStep =>
        /\ env.gen_output_first_pass = Call("generator", 1, <<Arg("input_image")>>)
        /\ env.gen_output_second_pass = Call("generator", 4, <<env.gen_output_first_pass>>)
        /\ env.gen_loss_second_pass =
              GenLoss(env.disc_generated_output_second_pass, env.gen_output_second_pass,
                      Arg("target"), Model0_LAMBDA)
        /\ 100 * SECOND_PASS_LAMBDA[1] = 125 * SECOND_PASS_LAMBDA[2]
        /\ env.gen_loss = Sum(env.gen_loss_first_pass,
                              <<"mul", SECOND_PASS_LAMBDA, env.gen_loss_second_pass>>)
        /\ env.disc_loss = Sum(env.disc_loss_first_pass, env.disc_loss_second_pass)
        /\ "generator_gradients" \in DOMAIN env =>
              env.generator_gradients = Gradient(env.gen_loss, "generator")
        /\ "discriminator_gradients" \in DOMAIN env =>
              env.discriminator_gradients = Gradient(env.disc_loss, "discriminator")
        /\ applied[<<"optimizer_g", "generator">>] = 1 =>
              "generator_gradients" \in DOMAIN env /\ gGrad # None
        /\ applied[<<"optimizer_d", "discriminator">>] = 1 =>
              "discriminator_gradients" \in DOMAIN env /\ dGrad # None

\* A train step of Model0 has applied the gradients of both combined losses.
C16_Witness ==
    /\ variant = "Model0"
    /\ pc = "m0_metrics"
    /\ applied[<<"optimizer_g", "generator">>] = 1
    /\ applied[<<"optimizer_d", "discriminator">>] = 1
    /\ env.generator_gradients = Gradient(env.gen_loss, "generator")
    /\ env.gen_output_second_pass[3] = <<env.gen_output_first_pass>>

\* C17: Model0.fit saves the sample predictions at the end of the 1-based epoch
\* n exactly when save_path is not None and (n = 1 or n is a multiple of 5);
\* when save_path is None no image is written.
C17_ImagesAtFirstAndEveryFifthEpoch ==
    variant = "Model0" =>
        /\ images = {n \in 1..epoch : save_path /\ (n = 1 \/ n % 5 = 0)}
        /\ ~save_path => images = {}

\* Model0 has completed five epochs and saved the images of the first and the
\* fifth.
C17_Witness ==
    /\ variant = "Model0"
    /\ save_path
    /\ epoch = 5
    /\ images = {1, 5}

\* The locals of the running step that hold a score of the real pair.
RealScores ==
    {n \in DOMAIN env :
        /\ env[n][1] = "discriminator"
        /\ env[n][3] = <<Arg("input_image"), Arg("target")>>}

\* The locals of the running step that hold a discriminator score.
Scores == {n \in DOMAIN env : env[n][1] = "discriminator"}

\* C18: Model0.train_step evaluates the discriminator on the real pair
\* (input, target) once per step, and that first-pass score is the real score
\* of both the first-pass and the second-pass discriminator loss.
C18_RealScoreComputedOnce ==
    variant = "Model0" /\ InStep =>
        /\ RealScores = {"disc_real_output_first_pass"}
        /\ Cardinality(Scores) = 3
        /\ env.disc_loss_first_pass =
              DiscLoss(env.disc_real_output_first_pass,
                       env.disc_generated_output_first_pass)
        /\ env.disc_loss_second_pass =
              DiscLoss(env.disc_real_output_first_pass,
                       env.disc_generated_output_second_pass)

\* The second train step of Model0 has computed both discriminator losses.
C18_Witness ==
    /\ variant = "Model0"
    /\ InStep
    /\ stepNo = 2
    /\ env.disc_loss_second_pass[2] = env.disc_real_output_first_pass
    /\ env.disc_loss_second_pass[3] = env.disc_generated_output_second_pass

(***************************************************************************)
(* Properties of the discriminator losses (SpecLoss).                      *)
(***************************************************************************)
\* Half the sum of the two cross-entropies, in the units of loss_object.
HalfSumOfCrossEntropies ==
    (loss_object(1, disc_real_output) + loss_object(0, disc_generated_output)) \div 2

\* C6 as stated: in every variant the discriminator loss returned is one half of
\* the sum of the cross-entropy of the real pair against ones and of the
\* generated pair against zeros.
C6_HalvedInEveryVariant ==
    total_disc_loss # None => total_disc_loss[1] = HalfSumOfCrossEntropies

\* C6 amended: Pix2Pix._loss_d and RaisingLamdba.discriminator_loss return one
\* half of that sum; Model0.discriminator_loss returns the sum itself, not halved.
C6_HalvedExceptModel0 ==
    total_disc_loss # None =>
        total_disc_loss[1] = IF lossOf = "Model0"
                               THEN 2 * HalfSumOfCrossEntropies
                               ELSE HalfSumOfCrossEntropies

\* Pix2Pix has returned the loss of a real pair and a generated pair that it
\* scores differently.
C6_Witness ==
    /\ lossOf = "Pix2Pix"
    /\ total_disc_loss # None
    /\ disc_real_output # disc_generated_output
    /\ total_disc_loss[1] = HalfSumOfCrossEntropies
    /\ total_disc_loss[1] > 0

(***************************************************************************)
(* Properties of the datasets (SpecData).                                  *)
(***************************************************************************)
\* C7: the train and validation datasets are a partition fixed at construction:
\* train yields the same set of elements in every epoch, validation yields the
\* same set in every epoch, and no element is ever yielded by both.
C7_SplitFixedAtConstruction ==
    /\ Cardinality(trainYields) <= 1
    /\ Cardinality(valYields) <= 1
    /\ \A t \in trainYields : \A v \in valYields : t \cap v = {}

(***************************************************************************)
(* Properties of get_single_dataset (SpecFiles).                           *)
(***************************************************************************)
\* The three listings have matching counts: some temple images, as many colour
\* images, and a whole number of ruin images per temple image.
MatchingCounts ==
    /\ Len(temple_path_list) > 0
    /\ Len(colors_path_list) = Len(temple_path_list)
    /\ Len(ruins_path_list) % Len(temple_path_list) = 0

\* C14: get_single_dataset fails with an exception when the counts of the
\* listings are mismatched; a dataset it returns holds every ruin image once,
\* each with the temple image and the colour image of the same rank.
C14_MismatchedCountsRaise ==
    /\ gsPc \in {"returned", "raised"} /\ ~MatchingCounts => gsPc = "raised"
    /\ gsPc = "returned" =>
          /\ Len(dataset) = Len(ruins_path_list)
          /\ \A i \in 1..Len(dataset) : dataset[i][2] = dataset[i][3]

(***************************************************************************)
(* Properties of Model0.gen_dataset (SpecSplit).                           *)
(***************************************************************************)
\* The path at position i of real_path belongs to a whole block of
\* 10 * (n // 100) paths and lies in the first 80% of it.
InFirstFourFifths(i) ==
    /\ i <= 100 * Hundredth
    /\ (i - 1) % (10 * Hundredth) < 8 * Hundredth

\* ... and in the last 20% of it.
InLastFifth(i) ==
    /\ i <= 100 * Hundredth
    /\ (i - 1) % (10 * Hundredth) >= 8 * Hundredth

\* C20: gen_dataset splits real_path (n paths) into a train selection and a
\* test selection that are disjoint; each consecutive block of 10 * (n // 100)
\* paths gives its first 80% to train and its last 20% to test; the two
\* selections together hold every path if and only if n is a multiple of 100,
\* otherwise the trailing n mod 100 paths are in neither.
C20_EightyTwentyBlocks ==
    gdPc \in {"list_files", "returned", "raised"} =>
        LET n == Len(real_path)
            both == Range(train_real) \cup Range(test_real)
        IN  /\ Range(train_real) \cap Range(test_real) = {}
            /\ Len(train_real) = Cardinality(Range(train_real))
            /\ Len(test_real) = Cardinality(Range(test_real))
            /\ \A i \in 1..n :
                  /\ i \in Range(train_real) <=> InFirstFourFifths(i)
                  /\ i \in Range(test_real) <=> InLastFifth(i)
            /\ both = Range(real_path) <=> n % 100 = 0
            /\ both = {real_path[i] : i \in 1..(n - (n % 100))}

\* gen_dataset has split 205 paths: blocks of 20, the last five paths dropped.
C20_Witness ==
    /\ gdPc = "returned"
    /\ Len(real_path) = 205
    /\ Len(train_real) = 160
    /\ Len(test_real) = 40
    /\ SubSeq(train_real, 15, 18) = <<15, 16, 21, 22>>
    /\ SubSeq(test_real, 1, 5) = <<17, 18, 19, 20, 37>>

(***************************************************************************)
(* Properties of the module-level image dimensions (SpecConfig).           *)
(***************************************************************************)
\* The last argument of the sequence that is not None, `default` if there is none.
LastGiven(args, default) ==
    LET given == {i \in 1..Len(args) : args[i] # None}
    IN  IF given = {}
          THEN default
          ELSE args[CHOOSE i \in given : \A j \in given : j <= i]

\* pix2pix_preprocessing.IMG_WIDTH / IMG_HEIGHT are those of the most recently
\* constructed Model0.
LastModelWins == pp_IMG = LastGiven(models, pp_IMG_default)

\* get_dataset overwrites custom_preprocessing.IMG_WIDTH / IMG_HEIGHT only with
\* an input_shape that is given, and never changes TGT_WIDTH / TGT_HEIGHT.
InputShapeWins ==
    /\ cp_IMG = LastGiven(input_shapes, cp_IMG_default)
    /\ cp_TGT = cp_TGT_default
    /\ \A k \in 1..Len(cp_datasets) :
          /\ cp_datasets[k].img = LastGiven(SubSeq(input_shapes, 1, k), cp_IMG_default)
          /\ cp_datasets[k].tgt = cp_TGT_default

ValidInput == in_h > 0 /\ in_w > 0 /\ in_h % 256 = 0 /\ in_w % 256 = 0

\* C8: in every variant the discriminator's score map is computed from the
\* concatenation of the condition image and the candidate image: the candidate
\* is on the data path to the output, so the score can differ between two
\* candidates for the same condition.
C8_CandidateReachesTheScore ==
    netOf \in Discriminators /\ netPc = "done" =>
        {"input_image", "target_image"} \subseteq out.deps

\* C9: the generator applies 8 encoder blocks, then 7 decoder blocks; the output
\* of decoder block j is concatenated with the output of encoder block 8 - j
\* (never with that of block 8); at each concatenation both have the same
\* channel count and, for a height and width that are multiples of 256, the same
\* height and width, so that no concatenation fails.
C9_SkipConnectionsMirror ==
    netOf \in Generators =>
        /\ Len(concats) > 0 => netPc \in {"up", "done", "error"}
        /\ netPc \in {"up", "done", "error"} => x.deps # {} /\ Len(skips) = 7
        /\ netPc = "done" => Len(concats) = 7
        /\ \A j \in 1..Len(concats) :
              /\ concats[j].block = 8 - j
              /\ concats[j].dec.c = concats[j].enc.c
              /\ ValidInput => CanConcatenate(concats[j].dec, concats[j].enc)
        /\ ValidInput => netPc # "error"

\* A generator has been followed to its output on a 256 x 512 input.
C9_Witness ==
    /\ netOf \in Generators
    /\ netPc = "done"
    /\ in_h = 256 /\ in_w = 512
    /\ Len(concats) = 7
    /\ concats[7].block = 1
    /\ concats[7].dec.h = 128 /\ concats[7].dec.w = 256

\* C10: for every input whose height H and width W are positive multiples of
\* 256 the generator returns a tensor of H x W with out_dims channels (3 in
\* Model0).
C10_OutputHasInputResolution ==
    netOf \in Generators /\ ValidInput =>
        /\ netPc # "error"
        /\ netPc = "done" =>
              /\ out.h = in_h
              /\ out.w = in_w
              /\ out.c = out_dims
              /\ netOf = "Model0_generator" => out.c = 3

\* Model0's generator has returned its output for a 512 x 256 input.
C10_Witness ==
    /\ netOf = "Model0_generator"
    /\ netPc = "done"
    /\ in_h = 512 /\ in_w = 256
    /\ out = Tensor(512, 256, 3, {"input_1"})

(***************************************************************************)
(* The pairs of Model0.gen_dataset (SpecSplit).                            *)
(***************************************************************************)
\* The real path that the layout of the arguments gives to the input at
\* position k of input_path.
RealOfInputAt(k) == real_path[((k - 1) % Len(real_path)) + 1]

\* The pairs of the dataset keep the correspondence of the arguments, and
\* every input of the selection is in exactly one pair.
KeepsCorrespondence(ds, selection) ==
    /\ \A j \in 1..Len(ds) :
          \E k \in 1..Len(input_path) :
              input_path[k] = ds[j][1] /\ RealOfInputAt(k) = ds[j][2]
    /\ \A k \in 1..Len(selection) :
          Cardinality({j \in 1..Len(ds) : ds[j][1] = selection[k]}) = 1

\* C21: for len(real_path) a multiple of 100 and input_path laid out as
\* repeat_real consecutive blocks aligned with real_path, every pair of the
\* train dataset and of the test dataset is an input with the real path of its
\* position, and every selected input is in exactly one pair.
C21_PairsKeepCorrespondence ==
    gdPc = "returned" /\ Len(real_path) % 100 = 0 =>
        /\ KeepsCorrespondence(train_dataset, train_input)
        /\ KeepsCorrespondence(test_dataset, test_input)

(***************************************************************************)
(* Properties of random_jitter (SpecJitter).                               *)
(***************************************************************************)
\* C22: random_jitter applies one crop window and one flip decision to the
\* whole tuple: every image it returns shows the same window of its resized
\* source, of the target size (TGT_WIDTH x TGT_HEIGHT in custom_preprocessing,
\* IMG_WIDTH x IMG_HEIGHT in pix2pix_preprocessing), the window lies inside the
\* resized image, and either all images are mirrored or none is.
C22_OneWindowOneFlip ==
    jtPc = "returned" =>
        /\ \A i \in DOMAIN jitter_images :
              LET image == jitter_images[i]
              IN  /\ image.source = i
                  /\ image.width = crop_size[1] /\ image.height = crop_size[2]
                  /\ image.of = <<Round(IMG_WIDTH * RESIZE_FACTOR[1], RESIZE_FACTOR[2]),
                                  Round(IMG_HEIGHT * RESIZE_FACTOR[1], RESIZE_FACTOR[2])>>
                  /\ 0 <= image.left /\ image.left + image.width <= image.of[1]
                  /\ 0 <= image.top /\ image.top + image.height <= image.of[2]
        /\ \A i, j \in DOMAIN jitter_images :
              /\ jitter_images[i].left = jitter_images[j].left
              /\ jitter_images[i].top = jitter_images[j].top
              /\ jitter_images[i].mirrored = jitter_images[j].mirrored

\* custom_preprocessing.random_jitter has returned three images cut away from
\* the top left corner and mirrored.
C22_Witness ==
    /\ jtPc = "returned"
    /\ preprocessing = "custom_preprocessing"
    /\ Len(jitter_images) = 3
    /\ jitter_images[1].left > 0
    /\ jitter_images[1].top > 0
    /\ jitter_images[3].mirrored

(***************************************************************************)
(* The final weight of RaisingLamdba (SpecTrain).                          *)
(***************************************************************************)
\* C23: the final L1 weight of a RaisingLamdba instance is the lamda_f argument
\* of its constructor: self.lambda_f equals the argument, and the weight
\* generator_loss computes in the last epoch of fit equals it.
C23_FinalWeightIsArgument ==
    variant = "Rising" =>
        /\ lambda_f = lamda_f
        /\ LambdaComputed /\ epoch = epochs - 1 =>
               Num(lambda_t) = lamda_f * Den(lambda_t)

====
